---- MODULE Spec2Model ----
(***************************************************************************)
(* Verification model of the ssq_backend candidate-generation engine and   *)
(* its backtest simulator.                                                 *)
(*                                                                         *)
(*   Part I    shared data: draws, sample pools, constraint policy         *)
(*   Part II   backtest: start_backtest, run_backtest_task,                *)
(*             execute_backtest, the entropy strategy it drives            *)
(*   Part III  the strategies of compute/: random, hot/cold, genetic       *)
(*             (single objective) and genetic (NSGA-II)                    *)
(*   Part IV   ModelManager.execute, the registry and the FusionEngine     *)
(*   Part V    scoring of a replay: streaks, profit, statistics            *)
(*   Part VI   the constraint policy of the four constraint checkers       *)
(*   Part VII  the sorting helpers of NSGA-II called on their own          *)
(*   Part VIII the Bayesian strategy's posterior                           *)
(*                                                                         *)
(* Random draws of the program (random.sample, random.randint, the task    *)
(* id generated by the queue) are nondeterministic choices over the small  *)
(* pools defined in Part I.                                                *)
(***************************************************************************)
EXTENDS Integers, Sequences, FiniteSets, TLC

VARIABLES
    records,      \* backtest_records table: sequence, id = index (autoincrement)
    tasks,        \* queue messages / task states of backtest.run, id = index
    handles,      \* what start_backtest returned to its callers
    api,          \* position of the start_backtest handler
    cur,          \* task the worker is executing (0: idle)
    wi,           \* loop index i of execute_backtest
    acc,          \* local accumulators of execute_backtest
    btRead,       \* rows the strategy counted in its last invocation
    btSlice,      \* model.history injected in the last invocation
    stratCalls,   \* strategy invocations of the current execution
    strat,        \* model_code of the strategy whose generate() is running
    gpc,          \* position inside that generate()
    gparams,      \* self.params of the instance
    ghistory,     \* self.history of the instance
    population,   \* population of the genetic strategies
    best,         \* best individual and best fitness seen so far
    gen,          \* loop counter of generate()
    selected,     \* the list the replace-and-retry loop works on
    candidate,    \* what generate() returned or raised
    red_posterior,   \* self.red_posterior of a BayesianModel instance
    registry,     \* ModelRegistry._models: code -> class
    registered,   \* history: per normalised code, the class of the latest register call
    imported,     \* the classes whose modules were imported (sys.modules)
    call,         \* arguments of the last ModelManager.execute
    result,       \* what that call returned or raised
    sortInput,    \* the fitness vectors a sorting helper of NSGA-II was called with
    nsga          \* locals and outcome of that call

btVars == <<records, tasks, handles, api, cur, wi, acc, btRead, btSlice, stratCalls>>

genVars ==
    <<strat, gpc, gparams, ghistory, population, best, gen, selected, candidate, red_posterior>>

mgrVars == <<registry, registered, imported, call, result>>

nsgaVars == <<sortInput, nsga>>

vars == <<btVars, genVars, mgrVars, nsgaVars>>

(***************************************************************************)
(* Part I: shared data                                                     *)
(***************************************************************************)

MaxRed == 33
MaxBlue == 16
RedCount == 6

Range(s) == {s[k] : k \in DOMAIN s}

Min(a, b) == IF a < b THEN a ELSE b
Max(a, b) == IF a > b THEN a ELSE b

RECURSIVE SumFrom(_, _)
SumFrom(s, k) == IF k > Len(s) THEN 0 ELSE s[k] + SumFrom(s, k + 1)

\* sum(s)
SumSeq(s) == SumFrom(s, 1)

Sorted(s) == SortSeq(s, LAMBDA a, b : a < b)

\* round(a / b) for b > 0, to the nearest integer (ties away from zero)
RoundDiv(a, b) ==
    IF a >= 0 THEN (2 * a + b) \div (2 * b)
    ELSE -((2 * (-a) + b) \div (2 * b))

\* dict.get(key, default)
ParamsGet(p, k, d) == IF k \in DOMAIN p THEN p[k] ELSE d

ComboA == <<3, 8, 15, 20, 27, 30>>
ComboB == <<5, 9, 14, 22, 25, 32>>
ComboC == <<3, 8, 15, 21, 26, 31>>
ComboLow == <<1, 2, 3, 4, 5, 6>>

\* the k smallest elements of a set of integers, ascending
RECURSIVE FirstK(_, _)
FirstK(S, k) ==
    IF k <= 0 \/ S = {} THEN <<>>
    ELSE LET m == CHOOSE x \in S : \A y \in S : x <= y
         IN  <<m>> \o FirstK(S \ {m}, k - 1)

\* sorted(set(...))
SetToSeq(S) == FirstK(S, Cardinality(S))

\* ---- models/registry.py, models/base.py: strategy classes ----------------

\* A model code as text: `text` written with surrounding whitespace (ws) or
\* in upper case (upper).
Code(text) == [text |-> text, ws |-> FALSE, upper |-> FALSE]

\* str.strip() and str.lower()
Strip(code) == [code EXCEPT !.ws = FALSE]
Lower(code) == [code EXCEPT !.upper = FALSE]

Classes ==
    {"RandomLotteryModel", "markov_model.GeneticModel", "genetic_model.GeneticModel",
     "HotColdModel", "OddEvenBalanceModel", "GeneticLotteryModel"}

\* the model_code attribute of each class
model_code(cls) ==
    CASE cls = "RandomLotteryModel" -> Code("random")
      [] cls = "markov_model.GeneticModel" -> Code("genetic_model")
      [] cls = "genetic_model.GeneticModel" -> Code("genetic_model")
      [] cls = "HotColdModel" -> Code("hot_cold")
      [] cls = "OddEvenBalanceModel" -> Code("odd_even_balance")
      [] cls = "GeneticLotteryModel" -> Code("genetic")

\* a used code keeps its first class
NeverOverwrite(models, model_cls) ==
    LET code == Lower(Strip(model_code(model_cls)))
    IN  IF code \in DOMAIN models THEN models ELSE (code :> model_cls) @@ models

\* ModelRegistry.register: same class under the code is a no-op, another
\* class is overwritten
register(models, model_cls) ==
    LET code == Lower(Strip(model_code(model_cls)))
    IN  IF code \in DOMAIN models /\ models[code] = model_cls
        THEN models
        ELSE (code :> model_cls) @@ models

\* ModelRegistry.get: the class, or "" for None
get(models, code) ==
    LET key == Lower(Strip(code))
    IN  IF key \in DOMAIN models THEN models[key] ELSE ""

RECURSIVE RegisterAll(_, _)
RegisterAll(models, classes) ==
    IF classes = <<>> THEN models
    ELSE RegisterAll(register(models, Head(classes)), Tail(classes))

\* the registry after the import of models/registry.py (its auto-registration
\* block; neural_network_model needs torch and is left out)
AutoRegistered ==
    RegisterAll(<<>>, <<"RandomLotteryModel", "markov_model.GeneticModel",
                       "HotColdModel", "OddEvenBalanceModel">>)

\* ---- values before anything ran ------------------------------------------

NoAcc ==
    [curve |-> <<>>, total_profit |-> 0, total_bets |-> 0, win_3plus |-> 0,
     current_streak |-> 0, max_streak |-> 0, red_hits |-> <<>>]

\* best_individual = None / best_reds = None, with the initial best fitness
NoBest(fitness, inf) == [ind |-> <<>>, fitness |-> fitness, inf |-> inf]

NoCandidate == [status |-> "none", exc |-> "", reds |-> <<>>, blue |-> 0]

NoCall ==
    [role |-> "", history |-> 0, permissions |-> <<>>, global_model_params |-> <<>>,
     models |-> <<>>, loaded |-> <<>>, handed |-> <<>>]

NoResult == [status |-> "none", exc |-> "", by |-> "", tags |-> <<>>]

IdleBt ==
    /\ records = <<>>
    /\ tasks = <<>>
    /\ handles = <<>>
    /\ api = [pc |-> "idle"]
    /\ cur = 0
    /\ wi = 0
    /\ acc = NoAcc
    /\ btRead = <<>>
    /\ btSlice = <<>>
    /\ stratCalls = 0

IdleGen ==
    /\ strat = ""
    /\ gpc = "idle"
    /\ gparams = <<>>
    /\ ghistory = <<>>
    /\ population = <<>>
    /\ best = NoBest(0, FALSE)
    /\ gen = 0
    /\ selected = <<>>
    /\ candidate = NoCandidate
    /\ red_posterior = <<>>

IdleMgr ==
    /\ registry = AutoRegistered
    /\ registered = (Code("random") :> "RandomLotteryModel")
                     @@ (Code("genetic_model") :> "markov_model.GeneticModel")
                     @@ (Code("hot_cold") :> "HotColdModel")
                     @@ (Code("odd_even_balance") :> "OddEvenBalanceModel")
    /\ imported = {"RandomLotteryModel", "markov_model.GeneticModel",
                   "HotColdModel", "OddEvenBalanceModel"}
    /\ call = NoCall
    /\ result = NoResult

NoSort ==
    [pc |-> "idle", exc |-> "", pop_size |-> 0, dominated |-> <<>>, count |-> <<>>,
     fronts |-> <<>>, selected |-> <<>>, distance |-> <<>>]

IdleNsga ==
    /\ sortInput = <<>>
    /\ nsga = NoSort

(***************************************************************************)
(* Part II: backtest                                                       *)
(***************************************************************************)

MinPeriods == 50
LoopDefaultWindow == 50
EngineDefaultWindow == 100
WindowFloor == 30
WindowCeil == 200
DefaultSamples == 5000
MaxRetries == 3
BetAmount == 2

\* bounds of the model
TableLen == 52        \* rows of the kaijiang table
MaxOld == 1           \* records left in the table by earlier backtests
MaxDraws == 1         \* random samples enumerated per strategy invocation

\* The kaijiang table: row k is the k-th period in period order.
DrawReds(k) == IF k % 2 = 0 THEN ComboA ELSE ComboB
DrawBlue(k) == IF k % 2 = 0 THEN 9 ELSE 4

\* params_snapshots: version -> params_json
Snapshots ==
    ( "v1" :> << >> ) @@
    ( "v2" :> ("history_window" :> 49) ) @@
    ( "v3" :> ("history_window" :> 51 @@ "monte_carlo_samples" :> 0) )

Versions == {"v0", "v1", "v2", "v3"}
Modes == {"entropy", "monte_carlo", "markov"}
StartTokens == {1, 4}
EndTokens == {TableLen - 1, TableLen}
\* MySQL's numeric reading of a task UUID compared with the integer id column
UuidNumbers == 0..(MaxOld + 1)

\* HistoryService.get_draws_in_period_range: rows start..end ascending
DrawsInRange(s, e) == [k \in 1..Max(0, e - s + 1) |-> s + k - 1]

\* query(...).order_by(desc).limit(n).all() over the whole table
LatestRows(n) == [k \in 1..Min(n, TableLen) |-> TableLen - k + 1]

\* all_draws[:i]
Prefix(s, i) == SubSeq(s, 1, Min(i, Len(s)))

\* history[-window:]
LastN(s, n) == IF n <= 0 THEN s ELSE SubSeq(s, Max(1, Len(s) - n + 1), Len(s))


RedSamples == {<<30, 3, 27, 8, 20, 15>>, <<21, 3, 31, 8, 26, 15>>, <<6, 5, 4, 3, 2, 1>>}
BlueSamples == {1, 9}

\* ---- services/entropy_model.py -------------------------------------------

_check_zone_balance(reds) ==
    LET zone1 == Cardinality({k \in DOMAIN reds : 1 <= reds[k] /\ reds[k] <= 11})
        zone2 == Cardinality({k \in DOMAIN reds : 12 <= reds[k] /\ reds[k] <= 22})
        zone3 == Cardinality({k \in DOMAIN reds : 23 <= reds[k] /\ reds[k] <= 33})
    IN  /\ 1 <= zone1 /\ zone1 <= 3
        /\ 1 <= zone2 /\ zone2 <= 3
        /\ 1 <= zone3 /\ zone3 <= 3

_check_odd_even(reds) ==
    LET odd == Cardinality({k \in DOMAIN reds : reds[k] % 2 = 1})
    IN  <<odd, 6 - odd>> \in {<<2, 4>>, <<3, 3>>, <<4, 2>>}

_check_sum_range(reds) == 80 <= SumSeq(reds) /\ SumSeq(reds) <= 140

\* history_window = max(30, min(history_window, 200))
ClampWindow(w) == Max(WindowFloor, Min(w, WindowCeil))

\* The rows _calculate_red_probabilities feeds into its Counter: the newest
\* history_window rows of the table, whatever history is injected afterwards.
_calculate_red_probabilities(history_window) == LatestRows(history_window)

\* One run of the sampling loop of generate_entropy / generate_monte_carlo over
\* the drawn samples d (a sequence of [reds, blue]): the samples that pass the
\* three checks.  Which of them is closest to the target entropy is a choice
\* among them; none passing gives None.
PassingSamples(d) ==
    {k \in DOMAIN d :
        LET reds == Sorted(d[k].reds)
        IN  _check_zone_balance(reds) /\ _check_odd_even(reds) /\ _check_sum_range(reds)}

SampleRuns(samples) ==
    [1..Min(samples, MaxDraws) -> [reds : RedSamples, blue : BlueSamples]]

\* ---- services/recommend_service.py ---------------------------------------

\* RecommendEngine.generate_with_custom_history: every outcome of one call.
\* exc = "" : a prediction was returned.
generate_with_custom_history(history, params, mode) ==
    LET w0 == ParamsGet(params, "history_window", EngineDefaultWindow)
        window == IF Len(history) < w0 THEN Len(history) ELSE w0
        samples == ParamsGet(params, "monte_carlo_samples", DefaultSamples)
        read == _calculate_red_probabilities(ClampWindow(window))
        slice == LastN(history, window)
    IN  IF mode \notin {"entropy", "monte_carlo"}
        THEN {[exc |-> "ValueError", reds |-> <<>>, blue |-> 0,
               read |-> <<>>, slice |-> <<>>]}
        ELSE UNION {
               IF PassingSamples(d) = {}
               THEN {[exc |-> "AttributeError", reds |-> <<>>, blue |-> 0,
                      read |-> read, slice |-> slice]}
               ELSE {[exc |-> "", reds |-> Sorted(d[k].reds), blue |-> d[k].blue,
                      read |-> read, slice |-> slice] : k \in PassingSamples(d)}
               : d \in SampleRuns(samples)}

\* ---- services/backtest_service.py ----------------------------------------

\* BacktestService.PRIZE_RULES.get((red_hit, blue_hit), 0)
Prize(red_hit, blue_hit) ==
    CASE red_hit = 6 /\ blue_hit = 1 -> 5000000
      [] red_hit = 6 /\ blue_hit = 0 -> 1000000
      [] red_hit = 5 /\ blue_hit = 1 -> 300000
      [] red_hit = 5 /\ blue_hit = 0 -> 100000
      [] red_hit = 4 /\ blue_hit = 1 -> 3000
      [] red_hit = 4 /\ blue_hit = 0 -> 200
      [] red_hit = 3 /\ blue_hit = 1 -> 200
      [] red_hit = 2 /\ blue_hit = 1 -> 10
      [] red_hit = 1 /\ blue_hit = 1 -> 5
      [] red_hit = 0 /\ blue_hit = 1 -> 5
      [] OTHER -> 0

\* the stake is not deducted from the period's profit
ScoreNoStake(a, pred, row, bet) ==
    LET red_hit == Cardinality(Range(pred.reds) \cap Range(DrawReds(row)))
        blue_hit == IF pred.blue = DrawBlue(row) THEN 1 ELSE 0
        profit == Prize(red_hit, blue_hit)
        streak == IF red_hit >= 3 THEN a.current_streak + 1 ELSE 0
    IN  [curve |-> Append(a.curve,
                     [qi_shu |-> row, pred_red |-> pred.reds, pred_blue |-> pred.blue,
                      red_hit |-> red_hit, blue_hit |-> blue_hit,
                      profit |-> profit, cum_profit |-> a.total_profit + profit]),
         total_profit |-> a.total_profit + profit,
         total_bets |-> a.total_bets + bet,
         win_3plus |-> IF red_hit >= 3 THEN a.win_3plus + 1 ELSE a.win_3plus,
         current_streak |-> streak,
         max_streak |-> IF red_hit >= 3 THEN Max(a.max_streak, streak) ELSE a.max_streak,
         red_hits |-> Append(a.red_hits, red_hit)]

\* the streak is carried over a miss
ScoreNoReset(a, pred, row, bet) ==
    LET red_hit == Cardinality(Range(pred.reds) \cap Range(DrawReds(row)))
        blue_hit == IF pred.blue = DrawBlue(row) THEN 1 ELSE 0
        profit == Prize(red_hit, blue_hit) - bet
        streak == IF red_hit >= 3 THEN a.current_streak + 1 ELSE a.current_streak
    IN  [curve |-> Append(a.curve,
                     [qi_shu |-> row, pred_red |-> pred.reds, pred_blue |-> pred.blue,
                      red_hit |-> red_hit, blue_hit |-> blue_hit,
                      profit |-> profit, cum_profit |-> a.total_profit + profit]),
         total_profit |-> a.total_profit + profit,
         total_bets |-> a.total_bets + bet,
         win_3plus |-> IF red_hit >= 3 THEN a.win_3plus + 1 ELSE a.win_3plus,
         current_streak |-> streak,
         max_streak |-> IF red_hit >= 3 THEN Max(a.max_streak, streak) ELSE a.max_streak,
         red_hits |-> Append(a.red_hits, red_hit)]

\* one iteration of the replay loop after the prediction came back
ScorePeriod(a, pred, row, bet) ==
    LET red_hit == Cardinality(Range(pred.reds) \cap Range(DrawReds(row)))
        blue_hit == IF pred.blue = DrawBlue(row) THEN 1 ELSE 0
        profit == Prize(red_hit, blue_hit) - bet
        streak == IF red_hit >= 3 THEN a.current_streak + 1 ELSE 0
    IN  [curve |-> Append(a.curve,
                     [qi_shu |-> row, pred_red |-> pred.reds, pred_blue |-> pred.blue,
                      red_hit |-> red_hit, blue_hit |-> blue_hit,
                      profit |-> profit, cum_profit |-> a.total_profit + profit]),
         total_profit |-> a.total_profit + profit,
         total_bets |-> a.total_bets + bet,
         win_3plus |-> IF red_hit >= 3 THEN a.win_3plus + 1 ELSE a.win_3plus,
         current_streak |-> streak,
         max_streak |-> IF red_hit >= 3 THEN Max(a.max_streak, streak) ELSE a.max_streak,
         red_hits |-> Append(a.red_hits, red_hit)]

\* round(p / b * 100, 2) for b > 0 as sign, whole percent and hundredths
\* (the value exceeds the integer range when written in hundredths)
Percent(p, b) ==
    LET m == IF p < 0 THEN -p ELSE p
        whole == (m \div b) * 100 + ((m % b) * 100) \div b
        frac == RoundDiv((((m % b) * 100) % b) * 100, b)
    IN  [neg |-> p < 0,
         pct |-> IF frac = 100 THEN whole + 1 ELSE whole,
         frac |-> IF frac = 100 THEN 0 ELSE frac]

\* hit_rate left as a fraction of the periods, not a percentage
StatsAsFraction(a) ==
    LET periods == Len(a.curve)
    IN  [periods |-> periods,
         avg_hit |-> IF periods > 0 THEN RoundDiv(SumSeq(a.red_hits) * 10000, periods) ELSE 0,
         hit_rate |-> IF periods > 0 THEN RoundDiv(a.win_3plus * 100, periods) ELSE 0,
         total_profit |-> a.total_profit,
         roi |-> IF a.total_bets > 0 THEN Percent(a.total_profit, a.total_bets) ELSE Percent(0, 1),
         max_streak |-> a.max_streak,
         curve_data |-> a.curve]

\* the statistics computed after the loop; avg_hit in 1/10000, hit_rate in
\* 1/100
ComputeStats(a) ==
    LET periods == Len(a.curve)
    IN  [periods |-> periods,
         avg_hit |-> IF periods > 0 THEN RoundDiv(SumSeq(a.red_hits) * 10000, periods) ELSE 0,
         hit_rate |-> IF periods > 0 THEN RoundDiv(a.win_3plus * 100 * 100, periods) ELSE 0,
         total_profit |-> a.total_profit,
         roi |-> IF a.total_bets > 0 THEN Percent(a.total_profit, a.total_bets) ELSE Percent(0, 1),
         max_streak |-> a.max_streak,
         curve_data |-> a.curve]

NoStats ==
    [periods |-> 0, avg_hit |-> 0, hit_rate |-> 0, total_profit |-> 0, roi |-> Percent(0, 1),
     max_streak |-> 0, curve_data |-> <<>>]

\* BacktestRecord(...) as start_backtest builds it
NewRecord(task_id) ==
    [status |-> "running", task_id |-> task_id, stats |-> NoStats, finished |-> FALSE]

\* db.query(BacktestRecord).filter_by(id=record_id).first(): 0 is None.
\* record_id is the task's UUID; the integer id column is compared with its
\* numeric reading.
FindRecord(recs, record_id) ==
    IF record_id \in DOMAIN recs THEN record_id ELSE 0

\* the "update record" block of execute_backtest
FinalizeRecord(recs, record_id, stats) ==
    LET r == FindRecord(recs, record_id)
    IN  IF r # 0
        THEN [recs EXCEPT ![r] = [@ EXCEPT !.stats = stats, !.status = "completed",
                                           !.finished = TRUE]]
        ELSE recs

\* every iteration stores the statistics so far in the record
WriteProgress(recs, record_id, a) ==
    LET r == FindRecord(recs, record_id)
    IN  IF r # 0 THEN [recs EXCEPT ![r].stats = ComputeStats(a)] ELSE recs

\* What one iteration of the replay loop, or an exception leaving it, does to
\* the backtest_records table: the loop body and the task's except branch
\* hold no statement on a record.
RecordsDuringReplay(recs, record_id, a) == recs

\* ---- tasks/backtest_tasks.py ---------------------------------------------

\* re-queued while request.retries <= max_retries
RetryOnceMore(task) ==
    IF task.retries <= MaxRetries
    THEN [task EXCEPT !.state = "retry", !.retries = @ + 1]
    ELSE [task EXCEPT !.state = "failure"]

\* except Exception as exc: raise self.retry(exc=exc, countdown=30), with
\* max_retries=3: re-queued while request.retries < max_retries, else failed
AfterRaise(task) ==
    IF task.retries < MaxRetries
    THEN [task EXCEPT !.state = "retry", !.retries = @ + 1]
    ELSE [task EXCEPT !.state = "failure"]


\* ---- the state machine of one deployment ---------------------------------

Requests ==
    [version : Versions, start : StartTokens, end : EndTokens, mode : Modes]

\* a record an earlier, finished backtest left in the table
OldRecord ==
    [status |-> "completed", task_id |-> 0, stats |-> NoStats, finished |-> TRUE]

InitBt ==
    /\ \E n \in 0..MaxOld : records = [r \in 1..n |-> OldRecord]
    /\ tasks = <<>>
    /\ handles = <<>>
    /\ api = [pc |-> "idle"]
    /\ cur = 0
    /\ wi = 0
    /\ acc = NoAcc
    /\ btRead = <<>>
    /\ btSlice = <<>>
    /\ stratCalls = 0
    /\ IdleGen
    /\ IdleMgr
    /\ IdleNsga

\* start_backtest, with an unknown params_version: ValueError, nothing queued
StartRejected ==
    /\ api.pc = "idle"
    /\ \E version \in Versions \ DOMAIN Snapshots :
          handles' = Append(handles, [record_id |-> 0, task_id |-> 0, status |-> "ValueError"])
    /\ api' = [pc |-> "done"]
    /\ UNCHANGED <<records, tasks, cur, wi, acc, btRead, btSlice, stratCalls, genVars, mgrVars, nsgaVars>>

\* start_backtest up to run_backtest_task.delay(...): the task is queued
StartDelay ==
    /\ api.pc = "idle"
    /\ \E req \in Requests, uuid \in UuidNumbers :
          /\ req.version \in DOMAIN Snapshots
          /\ tasks' = Append(tasks, [state |-> "queued", retries |-> 0, executions |-> 0,
                                     uuid |-> uuid, req |-> req])
          /\ api' = [pc |-> "commit", task |-> Len(tasks) + 1]
    /\ UNCHANGED <<records, handles, cur, wi, acc, btRead, btSlice, stratCalls, genVars, mgrVars, nsgaVars>>

\* start_backtest from db.add(record) to return
StartCommit ==
    /\ api.pc = "commit"
    /\ records' = Append(records, NewRecord(api.task))
    /\ handles' = Append(handles, [record_id |-> Len(records) + 1, task_id |-> api.task,
                                   status |-> "running"])
    /\ api' = [pc |-> "done"]
    /\ UNCHANGED <<tasks, cur, wi, acc, btRead, btSlice, stratCalls, genVars, mgrVars, nsgaVars>>

TaskParams(t) == Snapshots[tasks[t].req.version]
TaskDraws(t) == DrawsInRange(tasks[t].req.start, tasks[t].req.end)

\* run_backtest_task picked up by the worker: execute_backtest up to the loop
WorkerStartTask(t) ==
    /\ cur = 0
    /\ tasks[t].state \in {"queued", "retry"}
    /\ LET started == [tasks[t] EXCEPT !.executions = @ + 1, !.state = "running"]
       IN  IF Len(TaskDraws(t)) < MinPeriods
           THEN /\ tasks' = [tasks EXCEPT ![t] = AfterRaise(started)]
                /\ cur' = 0
                /\ wi' = 0
           ELSE /\ tasks' = [tasks EXCEPT ![t] = started]
                /\ cur' = t
                /\ wi' = ParamsGet(TaskParams(t), "history_window", LoopDefaultWindow)
    /\ acc' = NoAcc
    /\ stratCalls' = 0
    /\ btRead' = <<>>
    /\ btSlice' = <<>>
    /\ UNCHANGED <<records, handles, api, genVars, mgrVars, nsgaVars>>

WorkerStart == \E t \in DOMAIN tasks : WorkerStartTask(t)

\* one iteration of the replay loop
ReplayStep ==
    /\ cur # 0
    /\ wi < Len(TaskDraws(cur))
    /\ LET all_draws == TaskDraws(cur)
           history_slice == Prefix(all_draws, wi)
           actual == all_draws[wi + 1]
       IN  \E pred \in generate_with_custom_history(history_slice, TaskParams(cur),
                                                    tasks[cur].req.mode) :
              /\ btRead' = pred.read
              /\ btSlice' = pred.slice
              /\ stratCalls' = stratCalls + 1
              /\ IF pred.exc # ""
                 THEN /\ tasks' = [tasks EXCEPT ![cur] = AfterRaise(@)]
                      /\ cur' = 0
                      /\ wi' = 0
                      /\ acc' = NoAcc
                 ELSE /\ acc' = ScorePeriod(acc, pred, actual, BetAmount)
                      /\ wi' = wi + 1
                      /\ UNCHANGED <<tasks, cur>>
    /\ records' = RecordsDuringReplay(records, tasks[cur].uuid, acc')
    /\ UNCHANGED <<handles, api, genVars, mgrVars, nsgaVars>>

\* after the loop: statistics, the record update, return
Finalize ==
    /\ cur # 0
    /\ wi >= Len(TaskDraws(cur))
    /\ records' = FinalizeRecord(records, tasks[cur].uuid, ComputeStats(acc))
    /\ tasks' = [tasks EXCEPT ![cur].state = "success"]
    /\ cur' = 0
    /\ wi' = 0
    /\ acc' = NoAcc
    /\ UNCHANGED <<handles, api, btRead, btSlice, stratCalls, genVars, mgrVars, nsgaVars>>

NextBt == StartRejected \/ StartDelay \/ StartCommit \/ WorkerStart \/ ReplayStep \/ Finalize

SpecBt == InitBt /\ [][NextBt]_vars

(***************************************************************************)
(* Claims on the backtest                                                  *)
(***************************************************************************)

\* C6: in the replay, the history the strategy reads for the candidate of
\* index i is exactly the injected slice of the prefix range[:i]; no row at
\* index >= i and no row outside the loaded range is read.
C6_NoLookAhead ==
    (cur # 0 /\ acc.curve # <<>>) =>
        /\ Range(btRead) = Range(btSlice)
        /\ Range(btRead) \subseteq Range(Prefix(TaskDraws(cur), wi - 1))

\* C7: once the task of a handle returned by start_backtest has finished its
\* replay without exception, the record of that handle is completed and
\* carries the statistics.
C7_HandleCompleted ==
    \A k \in DOMAIN handles :
        (handles[k].status = "running" /\ tasks[handles[k].task_id].state = "success") =>
            /\ records[handles[k].record_id].status = "completed"
            /\ records[handles[k].record_id].finished

\* C8: once the task of a handle has failed for good, the record of that
\* handle has status "failed".
C8_FailedMarked ==
    \A k \in DOMAIN handles :
        (handles[k].status = "running" /\ tasks[handles[k].task_id].state = "failure") =>
            records[handles[k].record_id].status = "failed"

Raises(t) ==
    /\ tasks'[t] # tasks[t]
    /\ tasks'[t].state \in {"retry", "failure"}

StatsOf(recs) == [r \in DOMAIN recs |-> <<recs[r].stats, recs[r].finished>>]

RaiseWritesNothing ==
    \A t \in DOMAIN tasks :
        Raises(t) =>
            /\ \A r \in DOMAIN records : records'[r] = records[r]
            /\ acc' = NoAcc
            /\ (Len(TaskDraws(t)) < MinPeriods => stratCalls' = 0)

StatsOnlyOnReturn ==
    (\E r \in DOMAIN records : StatsOf(records')[r] # StatsOf(records)[r]) =>
        (cur # 0 /\ tasks'[cur].state = "success")

\* C9: a step in which execute_backtest raises writes no statistics field of
\* any record and drops the partial outcomes; statistics are written only by
\* the step in which an execution returns; the fewer-than-50 check raises
\* before any strategy invocation.
C9_NoPartialStats == [][RaiseWritesNothing /\ StatsOnlyOnReturn]_vars

C9_Witness ==
    /\ records # <<>>
    /\ \E t \in DOMAIN tasks : tasks[t].state = "retry"
    /\ stratCalls >= 2
    /\ cur = 0
    /\ \A r \in DOMAIN records : records[r].stats = NoStats

ExecutionStartsEmpty ==
    \A t \in DOMAIN tasks :
        tasks'[t].executions > tasks[t].executions => (acc' = NoAcc /\ stratCalls' = 0)

FailureIsFinal ==
    \A t \in DOMAIN tasks : tasks[t].state = "failure" => tasks'[t] = tasks[t]

\* C10: a task is executed at most 1 + max_retries times, every execution
\* starts from empty accumulators, and a task that failed for good is never
\* executed again.
C10_BoundedRetry ==
    /\ [](\A t \in DOMAIN tasks : tasks[t].executions <= 1 + MaxRetries)
    /\ [][ExecutionStartsEmpty /\ FailureIsFinal]_vars

C10_Witness ==
    \E t \in DOMAIN tasks :
        tasks[t].state = "failure" /\ tasks[t].executions = 1 + MaxRetries

(***************************************************************************)
(* Part III: the strategies of compute/                                    *)
(*                                                                         *)
(* Parameters the source writes as fractions (hot_preference, elite_rate,  *)
(* de_scale, the fitness weights) are held in hundredths; fitness values   *)
(* are held times FitnessScale, which makes every term an integer.         *)
(***************************************************************************)

RetryRounds == 30
MinGaHistory == 10
DefaultAttempts == 50
FitnessScale == 15000

\* bounds of the model
MaxAttempts == 2       \* largest max_attempts enumerated besides the default
GaPop == 3             \* population_size of the single-objective GA
NsgaPop == 4           \* population_size of NSGA-II
MaxGenerations == 2    \* largest generations of the single-objective GA
MaxNsgaGenerations == 1   \* largest generations of NSGA-II

\* pools the random choices are drawn from
BlueChoices == {4, 9, 16}
PickPool == {1, 2, 3, 5, 7, 8, 20, 27, 33}
IndHigh == <<20, 27, 30, 31, 32, 33>>
IndMid == <<1, 2, 3, 8, 15, 20>>
Individuals == {IndHigh, IndMid, ComboLow, ComboA}
MutationSlots == {5}
MutationNumbers == {7, 12}
HistoryLens == {0, 1, 10, 11}

\* a history of n valid draws, oldest first
HistoryOf(n) == [k \in 1..n |-> [reds |-> DrawReds(k), blue |-> DrawBlue(k)]]

StrategyHistories == {HistoryOf(n) : n \in HistoryLens}

OddCount(reds) == Cardinality({k \in DOMAIN reds : reds[k] % 2 = 1})

\* number of adjacent pairs that differ by one
Consecutive(reds) == Cardinality({k \in 2..Len(reds) : reds[k] - reds[k - 1] = 1})

ZoneScore(reds) ==
    LET z1 == Cardinality({k \in DOMAIN reds : reds[k] <= 11})
        z2 == Cardinality({k \in DOMAIN reds : 12 <= reds[k] /\ reds[k] <= 22})
        z3 == Cardinality({k \in DOMAIN reds : reds[k] >= 23})
    IN  Min(1, z1) + Min(1, z2) + Min(1, z3)

Abs(x) == IF x < 0 THEN -x ELSE x

\* max(0.0, 1 - dist / 50), or 1.0 inside [min_sum, max_sum], times 150
SumScore(reds, p) ==
    LET total == SumSeq(reds)
    IN  IF p.min_sum <= total /\ total <= p.max_sum THEN 150
        ELSE Max(0, 150 - 3 * Min(Abs(total - p.min_sum), Abs(total - p.max_sum)))

\* the class attribute default_params
default_params(cls) ==
    CASE cls = "RandomLotteryModel" ->
           [prefer_odd_red |-> FALSE, prefer_odd_blue |-> FALSE,
            min_odd_count |-> 2, max_odd_count |-> 4, min_sum |-> 70, max_sum |-> 140,
            max_consecutive |-> 2, max_attempts |-> DefaultAttempts]
      [] cls = "HotColdModel" ->
           [recent_periods |-> 10, hot_threshold |-> 4, cold_threshold |-> 2,
            hot_preference |-> 60, history_window |-> 80,
            min_odd_count |-> 2, max_odd_count |-> 4, min_sum |-> 70, max_sum |-> 140,
            max_consecutive |-> 2]
      [] cls = "genetic_model.GeneticModel" ->
           [population_size |-> 120, generations |-> 60, crossover_rate |-> 85,
            mutation_rate |-> 8, elite_rate |-> 12,
            history_match_weight |-> 45, trend_weight |-> 25, odd_even_weight |-> 15,
            zone_weight |-> 10, sum_weight |-> 5,
            min_odd_count |-> 2, max_odd_count |-> 4, min_sum |-> 70, max_sum |-> 140,
            max_consecutive |-> 2, adaptive_mutation |-> TRUE, history_window |-> 80]
      [] cls = "markov_model.GeneticModel" ->
           [population_size |-> 150, generations |-> 80, crossover_rate |-> 88,
            mutation_rate |-> 12, elite_rate |-> 15,
            history_match_weight |-> 40, odd_even_weight |-> 18, zone_weight |-> 15,
            sum_weight |-> 12, consecutive_penalty |-> 15,
            de_scale |-> 60, adaptive_mutation |-> TRUE,
            min_odd_count |-> 2, max_odd_count |-> 4, min_sum |-> 70, max_sum |-> 140,
            max_consecutive |-> 2, history_window |-> 100]
      [] cls = "OddEvenBalanceModel" ->
           [target_odd_count |-> 3, odd_tolerance |-> 1, use_history_trend |-> TRUE,
            history_window |-> 50, prefer_odd_blue |-> FALSE,
            min_sum |-> 70, max_sum |-> 140, max_consecutive |-> 2]
      [] cls = "GeneticLotteryModel" -> << >>

\* _check_constraints of random_model.py and hot_cold_model.py (same body)
_check_constraints(reds, p) ==
    /\ Len(reds) = 6
    /\ OddCount(reds) >= p.min_odd_count
    /\ OddCount(reds) <= p.max_odd_count
    /\ SumSeq(reds) >= p.min_sum
    /\ SumSeq(reds) <= p.max_sum
    /\ Consecutive(reds) <= p.max_consecutive

Returned(reds, blue) == [status |-> "returned", exc |-> "", reds |-> reds, blue |-> blue]

Raised(exc) == [status |-> "raised", exc |-> exc, reds |-> <<>>, blue |-> 0]

\* a returned dict with the keys of extra_info that tell how it was found
ReturnedWith(reds, blue, extra_info) ==
    [status |-> "returned", exc |-> "", reds |-> reds, blue |-> blue,
     extra_info |-> extra_info]

\* "attempts": attempt + 1 if reds else <the unconstrained label>
AttemptsInfo(reds, attempt) ==
    IF reds # <<>> THEN [count |-> attempt + 1, label |-> ""]
    ELSE [count |-> 0, label |-> "unconstrained"]

\* ---- compute/random_model.py ---------------------------------------------

\* what one pass of the attempt loop may draw
RedDraws(prefer_odd_red) ==
    IF prefer_odd_red THEN {s \in RedSamples : OddCount(s) \in {3, 4}} ELSE RedSamples

\* The attempt loop from iteration `attempt` on.  left: the values `reds` may
\* hold on entry (<<>> is None).  Result: the values of (reds, attempt) after
\* the loop; attempt = -1 is the unbound loop variable.
RECURSIVE AttemptLoop(_, _, _)
AttemptLoop(p, attempt, left) ==
    IF attempt >= p.max_attempts
    THEN {[reds |-> r, attempt |-> attempt - 1] : r \in left}
    ELSE LET drawn == {Sorted(s) : s \in RedDraws(p.prefer_odd_red)}
             pass == {r \in drawn : _check_constraints(r, p)}
         IN  {[reds |-> r, attempt |-> attempt] : r \in pass}
             \cup (IF drawn \ pass = {} THEN {}
                   ELSE AttemptLoop(p, attempt + 1, drawn \ pass))

BlueDraws(prefer_odd_blue) ==
    IF prefer_odd_blue THEN {b \in BlueChoices : b % 2 = 1} ELSE BlueChoices

\* RandomLotteryModel.generate with self.params = p: every outcome
RandomLotteryModel_generate(p) ==
    UNION {
      LET redsSet == IF a.reds = <<>> THEN {Sorted(s) : s \in RedSamples} ELSE {a.reds}
      IN  IF a.attempt < 0
          THEN {Raised("UnboundLocalError")}
          ELSE {ReturnedWith(reds, blue, [attempts |-> AttemptsInfo(reds, a.attempt)]) :
                   reds \in redsSet, blue \in BlueDraws(p.prefer_odd_blue)}
      : a \in AttemptLoop(p, 0, {<<>>}) }

AttemptsChoices == (0..MaxAttempts) \cup {DefaultAttempts}

RandomParams ==
    {[default_params("RandomLotteryModel") EXCEPT
         !.max_attempts = m, !.prefer_odd_red = r, !.prefer_odd_blue = b, !.min_sum = s] :
       m \in AttemptsChoices, r \in BOOLEAN, b \in BOOLEAN, s \in {70, 300}}

\* RandomLotteryModel(history, params).generate()
RandomGenerate ==
    /\ gpc = "idle"
    /\ \E h \in StrategyHistories, p \in RandomParams :
         \E c \in RandomLotteryModel_generate(p) :
            /\ strat' = "random"
            /\ ghistory' = h
            /\ gparams' = p
            /\ candidate' = c
    /\ gpc' = "done"
    /\ UNCHANGED <<population, best, gen, selected, red_posterior, btVars, mgrVars, nsgaVars>>

\* the fallback every history-based strategy uses: RandomLotteryModel().generate()
RandomFallback == RandomLotteryModel_generate(default_params("RandomLotteryModel"))

\* ---- compute/hot_cold_model.py -------------------------------------------

\* _analyze_frequency: occurrences in history[-recent_periods:]
red_freq(h, p, r) ==
    LET recent == LastN(h, p.recent_periods)
    IN  Cardinality({k \in DOMAIN recent : r \in Range(recent[k].reds)})

blue_freq(h, p, b) ==
    LET recent == LastN(h, p.recent_periods)
    IN  Cardinality({k \in DOMAIN recent : recent[k].blue = b})

\* random.sample(S, k) as a set, drawn inside the pool when the pool has k
SampleSets(S, k) ==
    LET P == S \cap PickPool
    IN  IF Cardinality(P) >= k THEN {T \in SUBSET P : Cardinality(T) = k}
        ELSE {Range(FirstK(S, k))}

\* a number not in the list, as the `while new_num in ...` loops leave it
NewNumbers(list, pool) ==
    IF pool \ Range(list) # {} THEN pool \ Range(list)
    ELSE {CHOOSE n \in 1..MaxRed : n \notin Range(list) /\
                \A m \in (1..MaxRed) \ Range(list) : n <= m}

\* while len(selected) < 6: append a number not yet selected
RECURSIVE TopUp(_)
TopUp(list) ==
    IF Len(list) >= 6 THEN {list}
    ELSE UNION {TopUp(Append(list, c)) : c \in NewNumbers(list, PickPool)}

\* generate() up to selected.sort(): hot sample, cold sample, top-up
HotColdSelect(h, p) ==
    LET hot_reds == {r \in 1..MaxRed : red_freq(h, p, r) >= p.hot_threshold}
        cold_reds == {r \in 1..MaxRed : red_freq(h, p, r) <= p.cold_threshold}
        num_hot == (6 * p.hot_preference) \div 100
        hotSets == IF hot_reds # {}
                   THEN SampleSets(hot_reds, Min(num_hot, Cardinality(hot_reds)))
                   ELSE {{}}
    IN  UNION {
          LET remaining == 6 - Cardinality(T1)
              coldSets == IF remaining > 0 /\ cold_reds # {}
                          THEN SampleSets(cold_reds, Min(remaining, Cardinality(cold_reds)))
                          ELSE {{}}
          IN  UNION {{Sorted(l) : l \in TopUp(SetToSeq(T1) \o SetToSeq(T2))} : T2 \in coldSets}
          : T1 \in hotSets }

\* histories whose every draw has 7: alone above the hot threshold, among
\* six hot numbers, and in too few draws to reach the threshold
SevenCycle ==
    <<<<1, 2, 3, 7, 20, 27>>, <<5, 7, 8, 14, 22, 33>>, <<4, 7, 9, 16, 25, 31>>,
      <<6, 7, 10, 12, 18, 29>>>>

SevenHistories ==
    {[k \in 1..10 |-> [reds |-> SevenCycle[((k - 1) % 4) + 1], blue |-> 9]],
     [k \in 1..10 |-> [reds |-> <<2, 3, 5, 7, 8, 20>>, blue |-> 9]],
     [k \in 1..3 |-> [reds |-> SevenCycle[k], blue |-> 9]]}

HotColdParams ==
    {[default_params("HotColdModel") EXCEPT !.min_sum = s] : s \in {70, 300}}

HcStart ==
    /\ gpc = "idle"
    /\ \E h \in StrategyHistories \cup SevenHistories, p \in HotColdParams :
         /\ strat' = "hot_cold"
         /\ ghistory' = h
         /\ gparams' = p
         /\ IF h = <<>>
            THEN \E c \in RandomFallback :
                    candidate' = c /\ gpc' = "done" /\ selected' = <<>>
            ELSE \E l \in HotColdSelect(h, p) :
                    selected' = l /\ gpc' = "retry" /\ candidate' = NoCandidate
    /\ gen' = 0
    /\ UNCHANGED <<population, best, red_posterior, btVars, mgrVars, nsgaVars>>

\* one pass of `for _ in range(30)`
HcRetry ==
    /\ strat = "hot_cold"
    /\ gpc = "retry"
    /\ gen < RetryRounds
    /\ IF _check_constraints(selected, gparams)
       THEN gpc' = "blue" /\ UNCHANGED <<selected, gen>>
       ELSE \E idx \in 0..5, new_num \in NewNumbers(selected, PickPool) :
               /\ selected' = Sorted([selected EXCEPT ![idx + 1] = new_num])
               /\ gen' = gen + 1
               /\ gpc' = "retry"
    /\ UNCHANGED <<strat, gparams, ghistory, population, best, candidate, red_posterior, btVars, mgrVars, nsgaVars>>

\* the blue ball and the return
HcReturn ==
    /\ strat = "hot_cold"
    /\ gpc = "blue" \/ (gpc = "retry" /\ gen >= RetryRounds)
    /\ LET cold_blues == {b \in 1..MaxBlue : blue_freq(ghistory, gparams, b) <= gparams.cold_threshold}
           blues == IF cold_blues = {} THEN BlueChoices
                    ELSE IF cold_blues \cap BlueChoices # {} THEN cold_blues \cap BlueChoices
                    ELSE Range(FirstK(cold_blues, 1))
       IN  \E blue \in blues :
              candidate' = ReturnedWith(selected, blue, [history_length |-> Len(ghistory)])
    /\ gpc' = "done"
    /\ UNCHANGED <<strat, gparams, ghistory, population, best, gen, selected, red_posterior, btVars, mgrVars, nsgaVars>>

\* ---- genetic operators shared by both genetic strategies ------------------

\* _crossover with the drawn point: sorted(set(p1[:point] + p2[point:])) twice
_crossover(p1, p2, point) ==
    LET head(x) == SubSeq(x, 1, Min(point, Len(x)))
        tail(x) == SubSeq(x, point + 1, Len(x))
    IN  <<SetToSeq(Range(head(p1)) \cup Range(tail(p2))),
          SetToSeq(Range(head(p2)) \cup Range(tail(p1)))>>

\* index of the first largest entry (list.index(max(...)), np.argmax)
ArgMaxFirst(f) ==
    CHOOSE i \in DOMAIN f :
        /\ \A j \in DOMAIN f : f[j] <= f[i]
        /\ \A j \in DOMAIN f : j < i => f[j] < f[i]

InitialPopulations(pop_size) == [1..pop_size -> Individuals]

\* ---- compute/genetic_model.py: single-objective GA ------------------------

\* _fitness times FitnessScale
_fitness(reds, h, p) ==
    LET recent == LastN(h, p.history_window)
        n == Len(recent)
        overlap == Cardinality(Range(reds) \cap Range(recent[n].reds))
        sum3 == SumSeq(recent[n].reds) + SumSeq(recent[n - 1].reds)
                  + SumSeq(recent[n - 2].reds)
        \* (current_sum - avg_last) * (avg_last - sum(recent[-4])) > 0, avg_last = sum3 / 3
        trend_match == IF (3 * SumSeq(reds) - sum3) * (sum3 - 3 * SumSeq(recent[n - 3].reds)) > 0
                       THEN 150 ELSE 60
        history_part == IF h = <<>> THEN 0
                        ELSE p.history_match_weight * 25 * overlap
                             + (IF n >= 3 THEN p.trend_weight * trend_match ELSE 0)
        score == history_part
                 + p.odd_even_weight * (150 - 50 * Abs(OddCount(reds) - 3))
                 + p.zone_weight * 50 * ZoneScore(reds)
                 + p.sum_weight * SumScore(reds, p)
                 - Consecutive(reds) * 3750
    IN  Max(150, Min(FitnessScale, score))

\* _mutate with one replacement: every outcome
_mutate(individual) ==
    {IF idx + 1 > Len(individual) THEN [exc |-> "IndexError", ind |-> <<>>]
     ELSE [exc |-> "", ind |-> Sorted([individual EXCEPT ![idx + 1] = new_num])] :
        idx \in MutationSlots, new_num \in NewNumbers(individual, MutationNumbers)}

\* _select: roulette wheel, any individual of positive fitness
_select(pop, fitnesses) ==
    IF SumSeq(fitnesses) <= 0 THEN DOMAIN pop
    ELSE {i \in DOMAIN pop : fitnesses[i] > 0}

\* sorted(range(n), key=fitness, reverse=True)[:elite_count] (stable)
EliteIndices(fitnesses, elite_count) ==
    Prefix(SortSeq([i \in DOMAIN fitnesses |-> i],
                   LAMBDA a, b : fitnesses[a] > fitnesses[b]
                                 \/ (fitnesses[a] = fitnesses[b] /\ a < b)),
           elite_count)

\* a child as it was crossed, or mutated
MaybeMutated(c) == {[exc |-> "", ind |-> c]} \cup _mutate(c)

\* while len(new_population) < pop_size: select, cross, mutate, extend
RECURSIVE GaOffspring(_, _, _, _)
GaOffspring(pop, fitnesses, new_population, pop_size) ==
    IF Len(new_population) >= pop_size
    THEN {[exc |-> "", pop |-> new_population]}
    ELSE UNION {
           LET c == _crossover(pop[i1], pop[i2], point)
           IN  UNION {
                 IF m1.exc # "" \/ m2.exc # ""
                 THEN {[exc |-> "IndexError", pop |-> <<>>]}
                 ELSE GaOffspring(pop, fitnesses,
                                  new_population \o <<m1.ind, m2.ind>>, pop_size)
                 : m1 \in MaybeMutated(c[1]), m2 \in MaybeMutated(c[2]) }
           : i1 \in _select(pop, fitnesses), i2 \in _select(pop, fitnesses),
             point \in 1..5 }

GaParams ==
    {[default_params("genetic_model.GeneticModel") EXCEPT
         !.population_size = GaPop, !.generations = g] : g \in 1..MaxGenerations}

\* generate() up to the generation loop
GaStart ==
    /\ gpc = "idle"
    /\ \E h \in StrategyHistories, p \in GaParams :
         /\ strat' = "genetic_model.single"
         /\ ghistory' = h
         /\ gparams' = p
         /\ IF h = <<>> \/ Len(h) < MinGaHistory
            THEN \E c \in RandomFallback :
                    candidate' = c /\ gpc' = "done" /\ population' = <<>>
            ELSE \E pop \in InitialPopulations(p.population_size) :
                    population' = pop /\ gpc' = "loop" /\ candidate' = NoCandidate
    /\ best' = NoBest(-FitnessScale, FALSE)
    /\ gen' = 0
    /\ UNCHANGED <<selected, red_posterior, btVars, mgrVars, nsgaVars>>

\* one pass of `for gen in range(self.generations)`
GaGeneration ==
    /\ strat = "genetic_model.single"
    /\ gpc = "loop"
    /\ gen < gparams.generations
    /\ LET pop_size == gparams.population_size
           elite_count == Max(2, (pop_size * gparams.elite_rate) \div 100)
           fitnesses == [i \in DOMAIN population |-> _fitness(population[i], ghistory, gparams)]
           max_idx == ArgMaxFirst(fitnesses)
           elite_indices == EliteIndices(fitnesses, elite_count)
           elite == [k \in DOMAIN elite_indices |-> population[elite_indices[k]]]
       IN  \E o \in GaOffspring(population, fitnesses, elite, pop_size) :
              IF o.exc # ""
              THEN /\ candidate' = Raised(o.exc)
                   /\ gpc' = "done"
                   /\ UNCHANGED <<population, best, gen>>
              ELSE /\ population' = Prefix(o.pop, pop_size)
                   /\ best' = IF fitnesses[max_idx] > best.fitness
                              THEN [ind |-> population[max_idx],
                                    fitness |-> fitnesses[max_idx], inf |-> FALSE]
                              ELSE best
                   /\ gen' = gen + 1
                   /\ UNCHANGED <<gpc, candidate>>
    /\ UNCHANGED <<strat, gparams, ghistory, selected, red_posterior, btVars, mgrVars, nsgaVars>>

\* after the loop: the best individual and a blue ball
GaReturn ==
    /\ strat = "genetic_model.single"
    /\ gpc = "loop"
    /\ gen >= gparams.generations
    /\ LET best_individual == IF best.ind = <<>> THEN population[1] ELSE best.ind
       IN  \E blue \in BlueChoices : candidate' = Returned(best_individual, blue)
    /\ gpc' = "done"
    /\ UNCHANGED <<strat, gparams, ghistory, population, best, gen, selected, red_posterior, btVars, mgrVars, nsgaVars>>

\* ---- compute/markov_model.py: NSGA-II -------------------------------------

\* _fitness_vector times FitnessScale
_fitness_vector(reds, h, p) ==
    LET recent == LastN(h, p.history_window)
        overlap == Cardinality(Range(reds) \cap Range(recent[Len(recent)].reds))
    IN  << IF h = <<>> THEN 0 ELSE 25 * overlap * p.history_match_weight,
           (150 - 50 * Abs(OddCount(reds) - 3)) * p.odd_even_weight,
           50 * ZoneScore(reds) * p.zone_weight,
           SumScore(reds, p) * p.sum_weight,
           -(Consecutive(reds) * p.consecutive_penalty * 150) >>

\* at least as good in every objective
WeaklyDominates(u, v) == \A k \in DOMAIN u : u[k] >= v[k]

\* np.all(u >= v) and np.any(u > v)
Dominates(u, v) ==
    /\ \A k \in DOMAIN u : u[k] >= v[k]
    /\ \E k \in DOMAIN u : u[k] > v[k]

dominated_sets(fv, i) == {j \in DOMAIN fv : j # i /\ Dominates(fv[i], fv[j])}

domination_count(fv, i) ==
    Cardinality({j \in DOMAIN fv : j # i /\ ~Dominates(fv[i], fv[j]) /\ Dominates(fv[j], fv[i])})

\* the (i, j) visits of "for i in front: for j in dominated_sets[i]" in order
RECURSIVE Visits(_, _)
Visits(fv, front) ==
    IF front = <<>> THEN <<>>
    ELSE SetToSeq(dominated_sets(fv, Head(front))) \o Visits(fv, Tail(front))

\* domination_count[j] -= 1; append j when it reaches 0
RECURSIVE NextFront(_, _, _)
NextFront(dc, js, next_front) ==
    IF js = <<>> THEN [dc |-> dc, next_front |-> next_front]
    ELSE LET j == Head(js)
         IN  NextFront([dc EXCEPT ![j] = @ - 1], Tail(js),
                       IF dc[j] - 1 = 0 THEN Append(next_front, j) ELSE next_front)

\* "while fronts[front_idx]": fronts is a list of n lists, front k of the
\* source is fronts[k + 1] here; fronts[front_idx] = next_front with
\* front_idx = n is an IndexError
RECURSIVE BuildFronts(_, _, _, _)
BuildFronts(fv, dc, fronts, front_idx) ==
    IF fronts[front_idx + 1] = <<>> THEN [exc |-> "", fronts |-> fronts]
    ELSE LET r == NextFront(dc, Visits(fv, fronts[front_idx + 1]), <<>>)
         IN  IF front_idx + 1 >= Len(fronts)
             THEN [exc |-> "IndexError", fronts |-> fronts]
             ELSE BuildFronts(fv, r.dc, [fronts EXCEPT ![front_idx + 2] = r.next_front],
                              front_idx + 1)

RECURSIVE FlattenFrom(_, _)
FlattenFrom(ss, k) == IF k > Len(ss) THEN <<>> ELSE ss[k] \o FlattenFrom(ss, k + 1)

\* the fronts one after the other
Flatten(ss) == FlattenFrom(ss, 1)

\* _nsga2_select for len(population) <= pop_size, where every front is
\* taken whole: the population reordered front by front
_nsga2_select(pop, fv) ==
    LET n == Len(pop)
        dc == [i \in 1..n |-> domination_count(fv, i)]
        first == SelectSeq([i \in 1..n |-> i], LAMBDA i : dc[i] = 0)
        built == BuildFronts(fv, dc, [k \in 1..n |-> IF k = 1 THEN first ELSE <<>>], 0)
        order == Flatten(built.fronts)
    IN  IF built.exc # "" THEN [exc |-> built.exc, pop |-> <<>>]
        ELSE [exc |-> "", pop |-> [k \in DOMAIN order |-> pop[order[k]]]]

\* int(x) for x = a / b, b > 0: truncation toward zero
TruncDiv(a, b) == IF a >= 0 THEN a \div b ELSE -((-a) \div b)

\* _differential_mutation with the drawn a, b, c
_differential_mutation(pop, a, b, c, de_scale) ==
    IF Len(pop[a]) < 6 \/ Len(pop[b]) < 6 \/ Len(pop[c]) < 6
    THEN [exc |-> "IndexError", ind |-> <<>>]
    ELSE [exc |-> "",
          ind |-> Sorted([i \in 1..6 |->
                     Max(1, Min(MaxRed,
                         TruncDiv(100 * pop[a][i] + de_scale * (pop[b][i] - pop[c][i]), 100)))])]

\* population.index(p1)
IndexOf(pop, x) == CHOOSE i \in DOMAIN pop : pop[i] = x /\ \A j \in DOMAIN pop : j < i => pop[j] # x

\* c1 as crossed, or replaced by the differential mutant of p1's slot
NsgaMutated(pop, c1, p1, de_scale) ==
    LET idx == IndexOf(pop, p1)
        others == DOMAIN pop \ {idx}
    IN  {[exc |-> "", ind |-> c1]}
        \cup (IF Cardinality(others) < 3 THEN {[exc |-> "ValueError", ind |-> <<>>]}
              ELSE {_differential_mutation(pop, t[1], t[2], t[3], de_scale) :
                      t \in {u \in others \X others \X others :
                                u[1] # u[2] /\ u[1] # u[3] /\ u[2] # u[3]}})

\* while len(next_pop) < pop_size: sample two parents, cross, mutate, extend
RECURSIVE NsgaOffspring(_, _, _, _)
NsgaOffspring(pop, new_population, next_pop, p) ==
    IF Len(next_pop) >= p.population_size
    THEN {[exc |-> "", pop |-> next_pop]}
    ELSE IF Len(new_population) < 2
    THEN {[exc |-> "ValueError", pop |-> <<>>]}
    ELSE UNION {
           LET c == _crossover(new_population[pair[1]], new_population[pair[2]], point)
           IN  UNION {
                 IF m.exc # "" THEN {[exc |-> m.exc, pop |-> <<>>]}
                 ELSE NsgaOffspring(pop, new_population, next_pop \o <<m.ind, c[2]>>, p)
                 : m \in NsgaMutated(pop, c[1], new_population[pair[1]], p.de_scale) }
           : pair \in {u \in (DOMAIN new_population) \X (DOMAIN new_population) : u[1] # u[2]},
             point \in 1..5 }

NsgaParams ==
    {[default_params("markov_model.GeneticModel") EXCEPT
         !.population_size = NsgaPop, !.generations = g] : g \in 1..MaxNsgaGenerations}

\* generate() up to the generation loop
NsgaStart ==
    /\ gpc = "idle"
    /\ \E h \in StrategyHistories, p \in NsgaParams :
         /\ strat' = "genetic_model.nsga2"
         /\ ghistory' = h
         /\ gparams' = p
         /\ IF h = <<>> \/ Len(h) < MinGaHistory
            THEN \E c \in RandomFallback :
                    candidate' = c /\ gpc' = "done" /\ population' = <<>>
            ELSE \E pop \in InitialPopulations(p.population_size) :
                    population' = pop /\ gpc' = "loop" /\ candidate' = NoCandidate
    /\ best' = NoBest(0, TRUE)
    /\ gen' = 0
    /\ UNCHANGED <<selected, red_posterior, btVars, mgrVars, nsgaVars>>

\* one pass of `for gen in range(self.generations)`
NsgaGeneration ==
    /\ strat = "genetic_model.nsga2"
    /\ gpc = "loop"
    /\ gen < gparams.generations
    /\ LET pop_size == gparams.population_size
           elite_count == Max(3, (pop_size * gparams.elite_rate) \div 100)
           fitness_vectors == [i \in DOMAIN population |->
                                  _fitness_vector(population[i], ghistory, gparams)]
           sel == _nsga2_select(population, fitness_vectors)
           sums == [i \in DOMAIN population |-> SumSeq(fitness_vectors[i])]
           current_best_idx == ArgMaxFirst(sums)
       IN  IF sel.exc # ""
           THEN /\ candidate' = Raised(sel.exc)
                /\ gpc' = "done"
                /\ UNCHANGED <<population, best, gen>>
           ELSE \E o \in NsgaOffspring(population, sel.pop,
                                       Prefix(sel.pop, elite_count), gparams) :
                  IF o.exc # ""
                  THEN /\ candidate' = Raised(o.exc)
                       /\ gpc' = "done"
                       /\ UNCHANGED <<population, best, gen>>
                  ELSE /\ population' = Prefix(o.pop, pop_size)
                       /\ best' = IF best.inf \/ sums[current_best_idx] > best.fitness
                                  THEN [ind |-> Prefix(o.pop, pop_size)[current_best_idx],
                                        fitness |-> sums[current_best_idx], inf |-> FALSE]
                                  ELSE best
                       /\ gen' = gen + 1
                       /\ UNCHANGED <<gpc, candidate>>
    /\ UNCHANGED <<strat, gparams, ghistory, selected, red_posterior, btVars, mgrVars, nsgaVars>>

\* after the loop: best_reds or a fresh random sample, and a blue ball
NsgaReturn ==
    /\ strat = "genetic_model.nsga2"
    /\ gpc = "loop"
    /\ gen >= gparams.generations
    /\ LET redsSet == IF best.ind = <<>> THEN {Sorted(s) : s \in RedSamples} ELSE {best.ind}
       IN  \E reds \in redsSet, blue \in BlueChoices :
              candidate' = ReturnedWith(reds, blue,
                               [fitness_score |-> [inf |-> best.inf, v |-> best.fitness]])
    /\ gpc' = "done"
    /\ UNCHANGED <<strat, gparams, ghistory, population, best, gen, selected, red_posterior, btVars, mgrVars, nsgaVars>>

\* ---- the state machine of one generate() call ----------------------------

InitGen == IdleBt /\ IdleGen /\ IdleMgr /\ IdleNsga

NextGen ==
    RandomGenerate \/ HcStart \/ HcRetry \/ HcReturn \/ GaStart \/ GaGeneration \/ GaReturn
        \/ NsgaStart \/ NsgaGeneration \/ NsgaReturn

SpecGen == InitGen /\ [][NextGen]_vars

(***************************************************************************)
(* Claims on the strategies                                                *)
(***************************************************************************)

\* reds: exactly 6 pairwise-distinct integers of 1..33 in ascending order;
\* blue: one integer of 1..16
ValidCandidate(c) ==
    /\ Len(c.reds) = RedCount
    /\ \A k \in DOMAIN c.reds : c.reds[k] \in 1..MaxRed
    /\ \A k \in DOMAIN c.reds : k > 1 => c.reds[k - 1] < c.reds[k]
    /\ c.blue \in 1..MaxBlue

\* C1: for every strategy and every history of valid draws, the candidate
\* generate() returns has 6 pairwise-distinct ascending reds in 1..33 and a
\* blue in 1..16.
C1_ValidStructure == candidate.status = "returned" => ValidCandidate(candidate)

\* C5: RandomLotteryModel.generate() with an empty history never raises and
\* returns a structurally valid candidate, for every max_attempts >= 0, both
\* values of prefer_odd_red and prefer_odd_blue and unsatisfiable bounds.
C5_RandomTotal ==
    (strat = "random" /\ ghistory = <<>> /\ gpc = "done") =>
        (candidate.status = "returned" /\ ValidCandidate(candidate))

(***************************************************************************)
(* Part IV: ModelManager.execute and the FusionEngine                      *)
(*                                                                         *)
(* A result keeps what the manager acts on: whether generate() returned a  *)
(* dict or raised, the class that produced it, and the tags set on it.     *)
(***************************************************************************)

\* bounds of the model
MaxPerms == 2          \* permission rows of the caller's role

\* Python values the fusion arithmetic meets; a float is held in hundredths
PyInt(n) == [t |-> "int", v |-> n]
PyFloat(h) == [t |-> "float", v |-> h]
PyStr(s) == [t |-> "str", v |-> <<s>>]
PyTypeError == [t |-> "TypeError", v |-> 0]

RECURSIVE Repeat(_, _)
Repeat(s, n) == IF n <= 0 THEN <<>> ELSE s \o Repeat(s, n - 1)

\* r * weight
PyMul(r, weight) ==
    CASE r.t = "str" /\ weight.t = "int" -> [t |-> "str", v |-> Repeat(r.v, weight.v)]
      [] r.t = "int" /\ weight.t = "int" -> PyInt(r.v * weight.v)
      [] r.t \in {"int", "float"} /\ weight.t \in {"int", "float"} ->
            PyFloat(((IF r.t = "int" THEN 100 * r.v ELSE r.v)
                     * (IF weight.t = "int" THEN 100 * weight.v ELSE weight.v)) \div 100)
      [] OTHER -> PyTypeError

\* a + b
PyAdd(a, b) ==
    CASE a.t = "int" /\ b.t = "int" -> PyInt(a.v + b.v)
      [] a.t \in {"int", "float"} /\ b.t \in {"int", "float"} ->
            PyFloat((IF a.t = "int" THEN 100 * a.v ELSE a.v)
                    + (IF b.t = "int" THEN 100 * b.v ELSE b.v))
      [] a.t = "str" /\ b.t = "str" -> [t |-> "str", v |-> a.v \o b.v]
      [] OTHER -> PyTypeError

\* sum(x): 0 + x[0] + x[1] + ...
RECURSIVE PySumFrom(_, _, _)
PySumFrom(x, k, total) ==
    IF total.t = "TypeError" \/ k > Len(x) THEN total
    ELSE PySumFrom(x, k + 1, PyAdd(total, x[k]))

PySum(x) == PySumFrom(x, 1, PyInt(0))

\* x / n
PyDiv(x, n) ==
    CASE x.t = "int" -> PyFloat((100 * x.v) \div n)
      [] x.t = "float" -> PyFloat(x.v \div n)
      [] OTHER -> PyTypeError

\* the keys of the dict every compute/ strategy returns, in insertion order
ResultKeys == <<"reds", "blue", "strategy", "extra_info">>

Dict(cls, tags) == [status |-> "returned", exc |-> "", by |-> cls, tags |-> tags]

Propagated(exc) == [status |-> "raised", exc |-> exc, by |-> "", tags |-> <<>>]

\* ---- models/fusion_engine.py ---------------------------------------------

\* _apply_weight: [r * weight for r in result] over the dict's keys
_apply_weight(keys, weight) == [k \in DOMAIN keys |-> PyMul(PyStr(keys[k]), weight)]

\* _combine_results: [sum(x) / len(x) for x in zip(*results)]
_combine_results(results) ==
    LET width == IF results = <<>> THEN 0
                 ELSE CHOOSE w \in 0..Len(ResultKeys) :
                        /\ \A m \in DOMAIN results : Len(results[m]) >= w
                        /\ \E m \in DOMAIN results : Len(results[m]) = w
    IN  [k \in 1..width |->
            LET x == [m \in DOMAIN results |-> results[m][k]]
                total == PySum(x)
            IN  IF total.t = "TypeError" THEN PyTypeError ELSE PyDiv(total, Len(x))]

HasTypeError(list) == \E k \in DOMAIN list : list[k].t = "TypeError"

\* ---- the strategies as the manager meets them ----------------------------

\* model_cls(history=history, params=model_params): "" or the exception.
\* GeneticLotteryModel.__init__(self, history, population, generations) takes
\* no params keyword; the compute/ constructors read their keys from
\* self.params.
CtorKeys(cls) ==
    CASE cls = "RandomLotteryModel" -> {"prefer_odd_red", "prefer_odd_blue", "max_attempts"}
      [] cls = "HotColdModel" -> {"recent_periods", "hot_threshold", "cold_threshold",
                                  "hot_preference", "history_window"}
      [] cls = "OddEvenBalanceModel" -> {"target_odd_count", "odd_tolerance",
                                         "use_history_trend", "history_window",
                                         "prefer_odd_blue"}
      [] cls = "genetic_model.GeneticModel" ->
           {"population_size", "generations", "crossover_rate", "mutation_rate",
            "elite_rate", "history_window", "history_match_weight", "trend_weight",
            "odd_even_weight", "zone_weight", "sum_weight"}
      [] cls = "markov_model.GeneticModel" ->
           {"population_size", "generations", "crossover_rate", "mutation_rate",
            "elite_rate", "de_scale", "adaptive_mutation", "history_window"}
      [] OTHER -> {}

\* the keys generate() reads with self.params[...] on its way to a result
GenerateKeys(cls) ==
    CASE cls = "RandomLotteryModel" ->
           {"min_odd_count", "max_odd_count", "min_sum", "max_sum", "max_consecutive"}
      [] cls = "HotColdModel" ->
           {"min_odd_count", "max_odd_count", "min_sum", "max_sum", "max_consecutive"}
      [] cls = "OddEvenBalanceModel" ->
           {"min_odd_count", "max_odd_count", "min_sum", "max_sum", "max_consecutive"}
      [] cls = "genetic_model.GeneticModel" -> {"min_sum", "max_sum"}
      [] cls = "markov_model.GeneticModel" ->
           {"history_match_weight", "odd_even_weight", "zone_weight", "sum_weight",
            "consecutive_penalty", "min_sum", "max_sum"}
      [] OTHER -> {}

Instantiate(cls, model_params) ==
    IF cls = "GeneticLotteryModel" THEN "TypeError"
    ELSE IF CtorKeys(cls) \subseteq DOMAIN model_params THEN "" ELSE "KeyError"

\* model.generate() with a non-empty history: the exceptions it can end
\* with, "" standing for a returned dict
GenerateOutcomes(cls, model_params) ==
    CASE cls = "RandomLotteryModel" ->
           {o.exc : o \in RandomLotteryModel_generate(model_params)}
      [] cls = "OddEvenBalanceModel" ->
           IF GenerateKeys(cls) \subseteq DOMAIN model_params
           THEN {""} ELSE {"KeyError"}
      [] cls = "HotColdModel" -> {""}
      [] cls = "GeneticLotteryModel" -> {""}
      [] OTHER -> {"", "IndexError"}

\* ---- compute/model_manager.py --------------------------------------------

\* the stored override wins over the caller's
StoredOverCaller(cls, perm_params, global_model_params) ==
    perm_params @@ global_model_params @@ default_params(cls)

\* {**model_cls.default_params, **(perm.params or {}), **self.global_model_params}
MergeParams(cls, perm_params, global_model_params) ==
    global_model_params @@ perm_params @@ default_params(cls)

\* return RandomLotteryModel().generate()
Fallback ==
    {IF o.status = "returned" THEN Dict("RandomLotteryModel", <<>>) ELSE Propagated(o.exc) :
        o \in RandomFallback}

\* BaseLotteryModel.__init__: self.params = {**self.default_params, **(params or {})}
BaseLotteryModel_init(cls, params) == params @@ default_params(cls)

\* a failed instantiation keeps the strategy
KeepAnyway(loaded, cls, model_params, perm) ==
    Append(loaded, [cls |-> cls, params |-> BaseLotteryModel_init(cls, model_params),
                    code |-> model_code(cls), weight |-> perm.weight])

\* try: model = model_cls(...); models.append(model); weights.append(perm.weight)
\* except Exception: continue
TryInstantiate(loaded, cls, model_params, perm) ==
    IF Instantiate(cls, model_params) = ""
    THEN Append(loaded, [cls |-> cls, params |-> BaseLotteryModel_init(cls, model_params),
                         code |-> model_code(cls), weight |-> perm.weight])
    ELSE loaded

\* for perm in permissions: ...
RECURSIVE LoadModels(_, _, _, _, _)
LoadModels(models, permissions, global_model_params, k, loaded) ==
    IF k > Len(permissions) THEN loaded
    ELSE LET perm == permissions[k]
             model_cls == get(models, perm.model_code)
         IN  IF model_cls = ""
             THEN LoadModels(models, permissions, global_model_params, k + 1, loaded)
             ELSE LoadModels(models, permissions, global_model_params, k + 1,
                             TryInstantiate(loaded, model_cls,
                                            MergeParams(model_cls, perm.params,
                                                        global_model_params),
                                            perm))

\* the exception leaves execute
Propagate(exc) == {Propagated(exc)}

\* except Exception as e: return RandomLotteryModel().generate()   (single model)
OnGenerateError(exc) == Fallback

\* except Exception as e: return RandomLotteryModel().generate()   (fusion)
OnFusionError(exc) == Fallback

\* the single-model branch
SingleModel(m) ==
    UNION {
      IF exc = ""
      THEN {Dict(m.cls, ("model_used" :> m.code) @@ ("weight" :> m.weight))}
      ELSE OnGenerateError(exc)
      : exc \in GenerateOutcomes(m.cls, m.params) }

\* FusionEngine.generate from model k on: the exceptions it can end with,
\* or the combined list
RECURSIVE FusionEngine_generate(_, _, _)
FusionEngine_generate(loaded, k, weighted_results) ==
    IF k > Len(loaded)
    THEN LET combined == _combine_results(weighted_results)
         IN  IF HasTypeError(combined) THEN {[exc |-> "TypeError", value |-> <<>>]}
             ELSE {[exc |-> "", value |-> combined]}
    ELSE UNION {
           IF exc # "" THEN {[exc |-> exc, value |-> <<>>]}
           ELSE LET weighted == _apply_weight(ResultKeys, loaded[k].weight)
                IN  IF HasTypeError(weighted) THEN {[exc |-> "TypeError", value |-> <<>>]}
                    ELSE FusionEngine_generate(loaded, k + 1, Append(weighted_results, weighted))
           : exc \in GenerateOutcomes(loaded[k].cls, loaded[k].params) }

\* the fusion branch: result["model_used"] = "fusion" on the list that
\* _combine_results returns is a TypeError as well
FusedModels(loaded) ==
    UNION {
      IF f.exc # "" THEN OnFusionError(f.exc)
      ELSE OnFusionError("TypeError")
      : f \in FusionEngine_generate(loaded, 1, <<>>) }

\* the instances execute holds once its loop over the permissions is over
\* (none when it returned before the loop)
Loaded(c) ==
    IF c.role = "normal" \/ c.history = 0 \/ c.permissions = <<>> THEN <<>>
    ELSE LoadModels(c.models, c.permissions, c.global_model_params, 1, <<>>)

\* history = HistoryService.get_last_n_draws(self.db, self.periods), passed
\* on as it is in model_cls(history=history, params=model_params)
Handed(c) == IF Loaded(c) = <<>> THEN <<>> ELSE LatestRows(c.history)

\* ModelManager.execute: every result it can end with
execute(c) ==
    IF c.role = "normal" THEN Fallback
    ELSE IF c.history = 0 THEN Fallback
    ELSE IF c.permissions = <<>> THEN Fallback
    ELSE LET loaded == LoadModels(c.models, c.permissions, c.global_model_params, 1, <<>>)
         IN  IF loaded = <<>> THEN Fallback
             ELSE IF Len(loaded) = 1 THEN SingleModel(loaded[1])
             ELSE FusedModels(loaded)

\* rows of the role's permission table
PermissionRows ==
    {[model_code |-> Code("random"), weight |-> PyInt(1), params |-> << >>],
     [model_code |-> Code("random"), weight |-> PyFloat(50), params |-> [max_attempts |-> 0]],
     [model_code |-> [text |-> "hot_cold", ws |-> TRUE, upper |-> TRUE],
      weight |-> PyFloat(50), params |-> << >>],
     [model_code |-> Code("odd_even_balance"), weight |-> PyInt(2), params |-> << >>],
     [model_code |-> Code("odd_even_balance"), weight |-> PyInt(2),
      params |-> [min_odd_count |-> 2, max_odd_count |-> 4]],
     [model_code |-> Code("genetic"), weight |-> PyInt(1), params |-> << >>],
     [model_code |-> Code("ghost"), weight |-> PyInt(1), params |-> << >>],
     [model_code |-> Code("genetic_model"), weight |-> PyInt(1), params |-> << >>]}

PermissionLists == UNION {[1..n -> PermissionRows] : n \in 0..MaxPerms}

MgrCalls ==
    [role : {"normal", "vip"}, history : {0, 10}, permissions : PermissionLists,
     global_model_params : {<< >>, [max_attempts |-> 0], [max_attempts |-> 1]}]

\* ---- the state machine of the manager ------------------------------------

InitMgr == IdleBt /\ IdleGen /\ IdleMgr /\ IdleNsga

\* a model module is imported: its class registers itself
Register ==
    /\ \E cls \in Classes :
         /\ registry' = register(registry, cls)
         /\ registered' = (Code(model_code(cls).text) :> cls) @@ registered
         /\ imported' = imported \cup {cls}
    /\ UNCHANGED <<call, result, btVars, genVars, nsgaVars>>

\* ModelManager(user, db, periods, model_params).execute(): a manager is
\* built for one request and executes once
Execute ==
    /\ result = NoResult
    /\ \E c \in MgrCalls :
         LET seen == c @@ [models |-> registry]
         IN  \E r \in execute(seen) :
                /\ call' = seen @@ [loaded |-> Loaded(seen), handed |-> Handed(seen)]
                /\ result' = r
    /\ UNCHANGED <<registry, registered, imported, btVars, genVars, nsgaVars>>

NextMgr == Register \/ Execute

SpecMgr == InitMgr /\ [][NextMgr]_vars

(***************************************************************************)
(* Claims on the manager                                                   *)
(***************************************************************************)

\* the permitted strategy resolves: its code is registered and its
\* constructor does not raise
Resolves(c, perm) ==
    LET cls == get(c.models, perm.model_code)
    IN  /\ cls # ""
        /\ Instantiate(cls, MergeParams(cls, perm.params, c.global_model_params)) = ""

Resolved(c) == SelectSeq(c.permissions, LAMBDA perm : Resolves(c, perm))

IsRandomBaseline(r) ==
    r.status = "returned" /\ r.by = "RandomLotteryModel" /\ r.tags = << >>

Called == result.status # "none"

\* C2: execute returns the random-baseline candidate whenever no strategy
\* resolves: no permitted strategies, empty history, every permitted code
\* unregistered, or every permitted strategy's instantiation raised.
C2_BaselineWhenNothingResolves ==
    (Called /\ (call.permissions = <<>> \/ call.history = 0 \/ Resolved(call) = <<>>))
        => IsRandomBaseline(result)

C2_Witness ==
    /\ Called
    /\ call.role # "normal"
    /\ call.history > 0
    /\ Len(call.permissions) = 2
    /\ get(call.models, call.permissions[1].model_code) = ""
    /\ get(call.models, call.permissions[2].model_code) = "GeneticLotteryModel"
    /\ IsRandomBaseline(result)

\* a permitted strategy whose constructor or generate() can raise
CtorRaises(c, perm) ==
    LET cls == get(c.models, perm.model_code)
    IN  cls # "" /\ Instantiate(cls, MergeParams(cls, perm.params, c.global_model_params)) # ""

GenerateRaises(c, perm) ==
    LET cls == get(c.models, perm.model_code)
    IN  /\ Resolves(c, perm)
        /\ GenerateOutcomes(cls, MergeParams(cls, perm.params, c.global_model_params)) # {""}

\* C3: no exception of a permitted strategy's constructor or generate()
\* leaves execute: a candidate is returned, and a strategy whose constructor
\* raised is not among the strategies the result is tagged with.
C3_NoExceptionEscapes ==
    Called =>
        /\ result.status = "returned"
        /\ "model_used" \in DOMAIN result.tags =>
              \E k \in DOMAIN call.permissions :
                  /\ Resolves(call, call.permissions[k])
                  /\ model_code(get(call.models, call.permissions[k].model_code))
                       = result.tags["model_used"]

C3_Witness ==
    /\ Called
    /\ call.role # "normal"
    /\ call.history > 0
    /\ Len(call.permissions) = 2
    /\ CtorRaises(call, call.permissions[1])
    /\ GenerateRaises(call, call.permissions[2])
    /\ result.status = "returned"

\* C4: when two or more strategies resolve and each generate() succeeds,
\* execute returns the fusion result tagged "fusion" with the list of the
\* contributing codes and the parallel list of their weights.
C4_FusionTagged ==
    (/\ Called
     /\ call.role # "normal"
     /\ call.history > 0
     /\ Len(Resolved(call)) >= 2
     /\ \A k \in DOMAIN Resolved(call) : ~GenerateRaises(call, Resolved(call)[k]))
        => /\ result.status = "returned"
           /\ DOMAIN result.tags = {"model_used", "models", "weights"}
           /\ result.tags["model_used"] = "fusion"
           /\ result.tags["models"] =
                 [k \in DOMAIN Resolved(call) |->
                     model_code(get(call.models, Resolved(call)[k].model_code))]
           /\ result.tags["weights"] =
                 [k \in DOMAIN Resolved(call) |-> Resolved(call)[k].weight]

(***************************************************************************)
(* Part V: the scoring of execute_backtest on its own                      *)
(*                                                                         *)
(* The loop body and the statistics after the loop, applied to predictions *)
(* drawn from a pool that hits the alternating table with 0, 1, 3 and 6    *)
(* reds, so that runs of hits of every length up to MaxPeriods occur.      *)
(***************************************************************************)

\* bounds of the model
MaxPeriods == 5        \* periods replayed

\* what generate_with_custom_history may hand back for a period
ScorePredictions == [reds : {ComboA, ComboB, ComboC, ComboLow}, blue : {4, 9}]

\* execute_backtest(record_id = 1, ...) entering its loop, the record present
InitScore ==
    /\ records = <<NewRecord(1)>>
    /\ tasks = <<>>
    /\ handles = <<>>
    /\ api = [pc |-> "loop"]
    /\ cur = 0
    /\ wi = 0
    /\ acc = NoAcc
    /\ btRead = <<>>
    /\ btSlice = <<>>
    /\ stratCalls = 0
    /\ IdleGen
    /\ IdleMgr
    /\ IdleNsga

\* the loop body from red_set on, for the row after the last one scored
ScoreStep ==
    /\ api.pc = "loop"
    /\ wi < MaxPeriods
    /\ \E pred \in ScorePredictions :
          acc' = ScorePeriod(acc, pred, wi + 1, BetAmount)
    /\ wi' = wi + 1
    /\ UNCHANGED <<records, tasks, handles, api, cur, btRead, btSlice, stratCalls,
                   genVars, mgrVars, nsgaVars>>

\* the statistics and the record update after the loop
ScoreFinalize ==
    /\ api.pc = "loop"
    /\ records' = FinalizeRecord(records, 1, ComputeStats(acc))
    /\ api' = [pc |-> "returned"]
    /\ UNCHANGED <<tasks, handles, cur, wi, acc, btRead, btSlice, stratCalls,
                   genVars, mgrVars, nsgaVars>>

NextScore == ScoreStep \/ ScoreFinalize

SpecScore == InitScore /\ [][NextScore]_vars

(***************************************************************************)
(* Claims on the scoring                                                   *)
(***************************************************************************)

\* whether the prediction logged for period k hit at least 3 reds, counted
\* from the logged prediction and the table row
HitAt(curve, k) ==
    Cardinality(Range(curve[k].pred_red) \cap Range(DrawReds(curve[k].qi_shu))) >= 3

\* the length of the run of hit periods that ends at period k
RECURSIVE RunEndingAt(_, _)
RunEndingAt(curve, k) ==
    IF k < 1 \/ ~HitAt(curve, k) THEN 0 ELSE 1 + RunEndingAt(curve, k - 1)

LongestRun(curve) ==
    IF curve = <<>> THEN 0
    ELSE CHOOSE m \in 0..Len(curve) :
           /\ \A k \in DOMAIN curve : RunEndingAt(curve, k) <= m
           /\ m = 0 \/ \E k \in DOMAIN curve : RunEndingAt(curve, k) = m

\* C11: after any sequence of replayed periods max_streak is the length of
\* the longest run of consecutive periods with at least 3 red hits and
\* current_streak is the length of the run ending at the last period.
C11_StreakIsLongestRun ==
    /\ acc.max_streak = LongestRun(acc.curve)
    /\ acc.current_streak = RunEndingAt(acc.curve, Len(acc.curve))

C11_Witness ==
    /\ Len(acc.curve) = 5
    /\ HitAt(acc.curve, 1) /\ HitAt(acc.curve, 2)
    /\ ~HitAt(acc.curve, 3)
    /\ HitAt(acc.curve, 4)
    /\ ~HitAt(acc.curve, 5)
    /\ acc.max_streak = 2
    /\ acc.current_streak = 0

\* prize(red_hit, blue_hit) - bet_amount of the period logged at k, counted
\* from the logged prediction and the table row
PeriodProfit(curve, k) ==
    Prize(Cardinality(Range(curve[k].pred_red) \cap Range(DrawReds(curve[k].qi_shu))),
          IF curve[k].pred_blue = DrawBlue(curve[k].qi_shu) THEN 1 ELSE 0) - BetAmount

RECURSIVE ProfitUpTo(_, _)
ProfitUpTo(curve, k) ==
    IF k < 1 THEN 0 ELSE PeriodProfit(curve, k) + ProfitUpTo(curve, k - 1)

\* C12: after every replayed period k the cumulative profit is the sum over
\* periods 1..k of prize(red_hit, blue_hit) - bet_amount; the log has one
\* entry per replayed period in period order, and the cum_profit of its last
\* entry is the finalized total_profit.
C12_CumulativeProfit ==
    /\ Len(acc.curve) = wi
    /\ \A k \in DOMAIN acc.curve :
          /\ acc.curve[k].qi_shu = k
          /\ acc.curve[k].cum_profit = ProfitUpTo(acc.curve, k)
    /\ acc.total_profit = ProfitUpTo(acc.curve, Len(acc.curve))
    /\ (api.pc = "returned" /\ acc.curve # <<>>) =>
          /\ records[1].stats.curve_data = acc.curve
          /\ records[1].stats.total_profit = acc.curve[Len(acc.curve)].cum_profit

C12_Witness ==
    /\ api.pc = "returned"
    /\ Len(acc.curve) = 3
    /\ acc.curve[1].red_hit = 1 /\ acc.curve[1].blue_hit = 0
    /\ acc.curve[2].red_hit = 3 /\ acc.curve[2].blue_hit = 1
    /\ acc.curve[3].red_hit = 6 /\ acc.curve[3].blue_hit = 0
    /\ records[1].stats.total_profit = (0 - 2) + (200 - 2) + (1000000 - 2)

\* every logged prediction's reds are the reds of its row
PerfectReplay(curve) ==
    \A k \in DOMAIN curve : curve[k].pred_red = DrawReds(curve[k].qi_shu)

\* C13: a backtest that replays at least one period with every candidate's
\* reds equal to the actual reds finalizes hit_rate = 100.0, avg_hit = 6.0
\* and max_streak = the number of replayed periods.
C13_PerfectReplayStats ==
    (api.pc = "returned" /\ acc.curve # <<>> /\ PerfectReplay(acc.curve)) =>
        /\ records[1].status = "completed"
        /\ records[1].stats.periods = Len(acc.curve)
        /\ records[1].stats.hit_rate = 100 * 100
        /\ records[1].stats.avg_hit = 6 * 10000
        /\ records[1].stats.max_streak = Len(acc.curve)

C13_Witness ==
    /\ api.pc = "returned"
    /\ Len(acc.curve) = 3
    /\ PerfectReplay(acc.curve)
    /\ records[1].stats.hit_rate = 100 * 100

(***************************************************************************)
(* Part VI: the constraint policy of the strategies                        *)
(*                                                                         *)
(* _check_constraints of four strategies, applied to every sorted          *)
(* combination over PolicyNumbers under a few ConstraintSpec values.       *)
(***************************************************************************)

\* the numbers the checked combinations are drawn from
PolicyNumbers == {1, 2, 3, 4, 5, 6, 15, 16, 27, 28, 30, 33}

PolicyCombos == {SetToSeq(S) : S \in {T \in SUBSET PolicyNumbers : Cardinality(T) = RedCount}}

\* the constraint keys of default_params, and three tunings of them
ConstraintSpecs ==
    {[min_odd_count |-> 2, max_odd_count |-> 4, min_sum |-> 70, max_sum |-> 140,
      max_consecutive |-> 2],
     [min_odd_count |-> 1, max_odd_count |-> 5, min_sum |-> 70, max_sum |-> 140,
      max_consecutive |-> 2],
     [min_odd_count |-> 2, max_odd_count |-> 4, min_sum |-> 70, max_sum |-> 140,
      max_consecutive |-> 1],
     [min_odd_count |-> 2, max_odd_count |-> 4, min_sum |-> 60, max_sum |-> 150,
      max_consecutive |-> 3]}

\* OddEvenBalanceModel._check_constraints, target_odd and odd_tolerance as
\* __init__ read them from the params
OddEven_check_constraints(reds, p) ==
    /\ Len(reds) = 6
    /\ Abs(OddCount(reds) - p.target_odd_count) <= p.odd_tolerance
    /\ SumSeq(reds) >= p.min_sum
    /\ SumSeq(reds) <= p.max_sum
    /\ Consecutive(reds) <= p.max_consecutive

\* BayesianModel._check_constraints
Bayesian_check_constraints(reds, p) ==
    /\ Len(reds) = 6
    /\ OddCount(reds) >= p.min_odd_count
    /\ OddCount(reds) <= p.max_odd_count
    /\ ZoneScore(reds) = 3
    /\ SumSeq(reds) >= p.min_sum
    /\ SumSeq(reds) <= p.max_sum
    /\ Consecutive(reds) <= p.max_consecutive

Verdict(reds, ok) ==
    [status |-> IF ok THEN "accepted" ELSE "rejected", exc |-> "", reds |-> reds, blue |-> 0]

\* a sorted draw and the constraint values of an instance, before the check
InitPolicy ==
    /\ IdleBt
    /\ IdleMgr
    /\ IdleNsga
    /\ strat = ""
    /\ gpc = "idle"
    /\ gparams \in ConstraintSpecs
    /\ ghistory = <<>>
    /\ population = <<>>
    /\ best = NoBest(0, FALSE)
    /\ gen = 0
    /\ selected \in PolicyCombos
    /\ candidate = NoCandidate
    /\ red_posterior = <<>>

\* RandomLotteryModel._check_constraints(reds)
CheckRandom ==
    /\ gpc = "idle"
    /\ strat' = "random"
    /\ gpc' = "checked"
    /\ candidate' = Verdict(selected, _check_constraints(selected, gparams))
    /\ UNCHANGED <<gparams, ghistory, population, best, gen, selected, red_posterior, btVars, mgrVars, nsgaVars>>

\* HotColdModel._check_constraints(reds)
CheckHotCold ==
    /\ gpc = "idle"
    /\ strat' = "hot_cold"
    /\ gpc' = "checked"
    /\ candidate' = Verdict(selected, _check_constraints(selected, gparams))
    /\ UNCHANGED <<gparams, ghistory, population, best, gen, selected, red_posterior, btVars, mgrVars, nsgaVars>>

\* OddEvenBalanceModel._check_constraints(reds)
CheckOddEven ==
    /\ gpc = "idle"
    /\ strat' = "odd_even_balance"
    /\ gpc' = "checked"
    /\ candidate' =
          Verdict(selected,
                  OddEven_check_constraints(selected,
                                            gparams @@ default_params("OddEvenBalanceModel")))
    /\ UNCHANGED <<gparams, ghistory, population, best, gen, selected, red_posterior, btVars, mgrVars, nsgaVars>>

\* BayesianModel._check_constraints(reds)
CheckBayesian ==
    /\ gpc = "idle"
    /\ strat' = "bayesian_model"
    /\ gpc' = "checked"
    /\ candidate' = Verdict(selected, Bayesian_check_constraints(selected, gparams))
    /\ UNCHANGED <<gparams, ghistory, population, best, gen, selected, red_posterior, btVars, mgrVars, nsgaVars>>

NextPolicy == CheckRandom \/ CheckHotCold \/ CheckOddEven \/ CheckBayesian

SpecPolicy == InitPolicy /\ [][NextPolicy]_vars

(***************************************************************************)
(* Claims on the constraint policy                                         *)
(***************************************************************************)

\* adjacent pairs of the run of consecutive integers that ends at reds[k]
RECURSIVE PairsEndingAt(_, _)
PairsEndingAt(reds, k) ==
    IF k < 2 \/ reds[k] - reds[k - 1] # 1 THEN 0 ELSE 1 + PairsEndingAt(reds, k - 1)

\* adjacent pairs of the longest run, the count starting again at a break
LongestRunPairs(reds) ==
    CHOOSE m \in 0..Len(reds) :
        /\ \A k \in DOMAIN reds : PairsEndingAt(reds, k) <= m
        /\ \E k \in DOMAIN reds : PairsEndingAt(reds, k) = m

OddRuleHolds(reds, p) ==
    p.min_odd_count <= OddCount(reds) /\ OddCount(reds) <= p.max_odd_count

SumRuleHolds(reds, p) == p.min_sum <= SumSeq(reds) /\ SumSeq(reds) <= p.max_sum

\* C14: the run rule of random_model.py and hot_cold_model.py counts the
\* adjacent pairs within one run and starts again at a break: a combination
\* whose longest run has at most max_consecutive adjacent pairs, the
\* odd-count and sum rules satisfied, is accepted.
C14_RunCountResets ==
    (/\ strat \in {"random", "hot_cold"}
     /\ gpc = "checked"
     /\ OddRuleHolds(selected, gparams)
     /\ SumRuleHolds(selected, gparams)
     /\ LongestRunPairs(selected) <= gparams.max_consecutive)
        => candidate.status = "accepted"

DefaultConstraints ==
    [min_odd_count |-> 2, max_odd_count |-> 4, min_sum |-> 70, max_sum |-> 140,
     max_consecutive |-> 2]

\* C15: under the default max_consecutive = 2 the check of random_model.py
\* accepts a combination with exactly one pair of adjacent values (the
\* odd-count and sum rules satisfied) and rejects every combination that
\* contains a run of three consecutive integers.
C15_NoRunOfThree ==
    (strat = "random" /\ gpc = "checked" /\ gparams = DefaultConstraints) =>
        /\ (/\ Consecutive(selected) = 1
            /\ OddRuleHolds(selected, gparams)
            /\ SumRuleHolds(selected, gparams)) => candidate.status = "accepted"
        /\ LongestRunPairs(selected) >= 2 => candidate.status = "rejected"

\* the odd-count, sum and run rules on the ConstraintSpec values, the run
\* rule as random_model.py applies it
SharedRules(reds, p) ==
    /\ Len(reds) = 6
    /\ OddRuleHolds(reds, p)
    /\ SumRuleHolds(reds, p)
    /\ Consecutive(reds) <= p.max_consecutive

\* C16: for the same reds and the same ConstraintSpec values every
\* strategy's check gives the same verdict on the odd-count, sum and run
\* rules; only the zone-occupancy rule of the Bayesian strategy is extra.
C16_SameVerdict ==
    gpc = "checked" =>
        (candidate.status = "accepted" <=>
            /\ SharedRules(selected, gparams)
            /\ strat = "bayesian_model" => ZoneScore(selected) = 3)

(***************************************************************************)
(* Claims on the attempt budget                                            *)
(***************************************************************************)

\* the metadata says the candidate was found without the constraints
Flagged(c) ==
    /\ "attempts" \in DOMAIN c.extra_info
    /\ c.extra_info.attempts.label = "unconstrained"

\* C17: a candidate returned after the attempt budget ran out with no
\* attempt passing the check is flagged in its metadata, and a candidate
\* that passed the check is never flagged.
C17_BestEffortFlagged ==
    (gpc = "done" /\ candidate.status = "returned") =>
        /\ strat = "random" =>
              (Flagged(candidate) <=> ~_check_constraints(candidate.reds, gparams))
        /\ (strat = "hot_cold" /\ ghistory # <<>>) =>
              (Flagged(candidate) <=> gen >= RetryRounds)

(***************************************************************************)
(* Claims on the merged parameters                                         *)
(***************************************************************************)

\* the value the three layers give a key: the caller's, else the stored
\* one, else the default
LayeredValue(cls, perm_params, global_model_params, key) ==
    IF key \in DOMAIN global_model_params THEN global_model_params[key]
    ELSE IF key \in DOMAIN perm_params THEN perm_params[key]
    ELSE default_params(cls)[key]

\* C18: every strategy instance the manager builds holds, for every
\* parameter key, the caller-supplied override if the caller set the key,
\* otherwise the stored per-strategy override if it sets the key, otherwise
\* the strategy's default; it holds no other key.
C18_MergePriority ==
    (Called /\ call.role = "vip" /\ call.history # 0) =>
        LET resolved == Resolved(call)
        IN  /\ Len(call.loaded) = Len(resolved)
            /\ \A i \in DOMAIN call.loaded :
                  LET m == call.loaded[i]
                      perm == resolved[i]
                  IN  /\ m.cls = get(call.models, perm.model_code)
                      /\ DOMAIN m.params = DOMAIN call.global_model_params
                                             \cup DOMAIN perm.params
                                             \cup DOMAIN default_params(m.cls)
                      /\ \A key \in DOMAIN m.params :
                            m.params[key] = LayeredValue(m.cls, perm.params,
                                                         call.global_model_params, key)

\* two strategies were built; the caller and the stored row of the first
\* disagree on max_attempts and the caller's value was used, the second got
\* min_odd_count from its stored row alone and history_window from its defaults
C18_Witness ==
    /\ Called
    /\ Len(call.loaded) = 2
    /\ call.global_model_params = [max_attempts |-> 1]
    /\ call.permissions[1].params = [max_attempts |-> 0]
    /\ call.loaded[1].cls = "RandomLotteryModel"
    /\ call.loaded[1].params.max_attempts = 1
    /\ call.permissions[2].params = [min_odd_count |-> 2, max_odd_count |-> 4]
    /\ call.loaded[2].cls = "OddEvenBalanceModel"
    /\ call.loaded[2].params.min_odd_count = 2
    /\ call.loaded[2].params.max_attempts = 1
    /\ call.loaded[2].params.history_window = 50

\* C19: for every registered strategy the manager meets and every
\* combination of override layers, each key the strategy's constructor or
\* generate() reads is in the merged configuration, so neither fails on a
\* missing key.
C19_NoMissingKey ==
    (Called /\ call.role = "vip" /\ call.history # 0) =>
        \A i \in DOMAIN call.permissions :
            LET perm == call.permissions[i]
                cls == get(call.models, perm.model_code)
                merged == BaseLotteryModel_init(cls,
                              MergeParams(cls, perm.params, call.global_model_params))
            IN  (cls # "" /\ cls # "GeneticLotteryModel") =>
                    /\ CtorKeys(cls) \cup GenerateKeys(cls) \subseteq DOMAIN merged
                    /\ Instantiate(cls, merged) # "KeyError"
                    /\ "KeyError" \notin GenerateOutcomes(cls, merged)

(***************************************************************************)
(* Claims on the registry                                                  *)
(***************************************************************************)

\* the codes callers look up: registered and unknown texts, with and without
\* surrounding blanks and upper case
LookupCodes ==
    [text : {"random", "genetic_model", "hot_cold", "odd_even_balance", "genetic", "ghost"},
     ws : BOOLEAN, upper : BOOLEAN]

\* C20: after any sequence of register calls, get(c) is the class most
\* recently registered whose trimmed, lower-cased model_code equals the
\* trimmed, lower-cased c, and not-found when there is none; a lookup leaves
\* the registry as it was, registering a class already bound to its code
\* leaves the registry unchanged, and registering another class under a used
\* code replaces the binding.
C20_RegistryContract ==
    /\ registry = registered
    /\ \A c \in LookupCodes :
          get(registry, c) = IF Code(c.text) \in DOMAIN registered
                             THEN registered[Code(c.text)] ELSE ""

\* genetic_model was rebound from the Pareto variant to the single-objective
\* one, genetic was added, and a manager looked up " HOT_COLD " and a code
\* nobody registered
C20_Witness ==
    /\ registry[Code("genetic_model")] = "genetic_model.GeneticModel"
    /\ Code("genetic") \in DOMAIN registry
    /\ Called
    /\ Len(call.permissions) = 2
    /\ call.permissions[1].model_code = [text |-> "hot_cold", ws |-> TRUE, upper |-> TRUE]
    /\ call.permissions[2].model_code = Code("ghost")
    /\ Len(call.loaded) = 1
    /\ call.loaded[1].cls = "HotColdModel"
    /\ call.models = registry

(***************************************************************************)
(* Part VII: the sorting helpers of NSGA-II called on their own            *)
(***************************************************************************)

MaxFront == 3          \* most fitness vectors handed to a helper

\* float('inf') and a finite distance, kept in halves
Inf == [inf |-> TRUE, v |-> 0]
Finite(v) == [inf |-> FALSE, v |-> v]

\* sorted(range(n), key=lambda i: front_fitness[i][obj]): ascending, stable
SortedIdx(front_fitness, obj) ==
    SortSeq([i \in DOMAIN front_fitness |-> i],
            LAMBDA a, b : front_fitness[a][obj] < front_fitness[b][obj]
                          \/ (front_fitness[a][obj] = front_fitness[b][obj] /\ a < b))

\* the `for obj in range(m)` loop of _crowding_distance from objective obj on
RECURSIVE CrowdFrom(_, _, _)
CrowdFrom(front_fitness, obj, distance) ==
    IF obj > Len(front_fitness[1]) THEN distance
    ELSE LET n == Len(front_fitness)
             sorted_idx == SortedIdx(front_fitness, obj)
             f_max == front_fitness[sorted_idx[n]][obj]
             f_min == front_fitness[sorted_idx[1]][obj]
             ends == [k \in 1..n |->
                        IF k = sorted_idx[1] \/ k = sorted_idx[n] THEN Inf ELSE distance[k]]
             inner == [k \in 1..n |->
                         IF ends[k].inf THEN Inf
                         ELSE LET i == CHOOSE q \in 1..n : sorted_idx[q] = k
                              IN  Finite(ends[k].v
                                         + (2 * (front_fitness[sorted_idx[i + 1]][obj]
                                                 - front_fitness[sorted_idx[i - 1]][obj]))
                                           \div (f_max - f_min))]
         IN  CrowdFrom(front_fitness, obj + 1, IF f_max = f_min THEN ends ELSE inner)

\* _crowding_distance
_crowding_distance(front_fitness) ==
    LET n == Len(front_fitness)
    IN  IF n <= 2 THEN [k \in 1..n |-> Inf]
        ELSE CrowdFrom(front_fitness, 1, [k \in 1..n |-> Finite(0)])

\* sorted(range(len(front)), key=lambda k: crowding[k], reverse=True): stable
ByCrowding(crowding) ==
    SortSeq([k \in DOMAIN crowding |-> k],
            LAMBDA a, b :
                \/ crowding[a].inf /\ ~crowding[b].inf
                \/ ~crowding[a].inf /\ ~crowding[b].inf /\ crowding[a].v > crowding[b].v
                \/ /\ crowding[a].inf = crowding[b].inf
                   /\ (crowding[a].inf \/ crowding[a].v = crowding[b].v)
                   /\ a < b)

\* the `for front in fronts` loop of _nsga2_select from front k on
RECURSIVE TakeFronts(_, _, _, _, _)
TakeFronts(fv, fronts, k, chosen, pop_size) ==
    IF k > Len(fronts) THEN chosen
    ELSE LET front == fronts[k]
         IN  IF Len(chosen) + Len(front) <= pop_size
             THEN TakeFronts(fv, fronts, k + 1, chosen \o front, pop_size)
             ELSE LET crowding == _crowding_distance([q \in DOMAIN front |-> fv[front[q]]])
                      sorted_front == ByCrowding(crowding)
                      need == pop_size - Len(chosen)
                  IN  chosen \o [q \in 1..need |-> front[sorted_front[q]]]

\* _nsga2_select on the indices of the population: its locals and what it
\* returns or raises
NsgaSelect(fv, pop_size) ==
    LET n == Len(fv)
        dc == [i \in 1..n |-> domination_count(fv, i)]
        first == SelectSeq([i \in 1..n |-> i], LAMBDA i : dc[i] = 0)
        built == BuildFronts(fv, dc, [k \in 1..n |-> IF k = 1 THEN first ELSE <<>>], 0)
    IN  [pc |-> "selected", exc |-> built.exc, pop_size |-> pop_size,
         dominated |-> [i \in 1..n |-> dominated_sets(fv, i)],
         count |-> dc,
         fronts |-> built.fronts,
         selected |-> IF built.exc # "" THEN <<>>
                      ELSE TakeFronts(fv, built.fronts, 1, <<>>, pop_size),
         distance |-> <<>>]

\* fitness vectors of two and of five objectives
Vectors2 == [1..2 -> 0..2]
Vectors5 == {<<0, 0, 0, 0, 0>>, <<1, 1, 1, 1, 1>>, <<1, 0, 1, 0, 1>>, <<0, 1, 0, 1, 0>>}

FitnessLists == UNION {[1..n -> Vectors2] \cup [1..n -> Vectors5] : n \in 1..MaxFront}

InitNsga ==
    /\ IdleBt
    /\ IdleGen
    /\ IdleMgr
    /\ sortInput \in FitnessLists
    /\ nsga = NoSort

\* self._nsga2_select(population, fitness_vectors) with pop_size = n or n - 1
SortSelect ==
    /\ nsga.pc = "idle"
    /\ \E pop_size \in {Len(sortInput), Max(1, Len(sortInput) - 1)} :
          nsga' = NsgaSelect(sortInput, pop_size)
    /\ UNCHANGED <<sortInput, btVars, genVars, mgrVars>>

\* self._crowding_distance(front_fitness)
SortCrowd ==
    /\ nsga.pc = "idle"
    /\ nsga' = [NoSort EXCEPT !.pc = "crowded",
                              !.distance = _crowding_distance(sortInput)]
    /\ UNCHANGED <<sortInput, btVars, genVars, mgrVars>>

NextNsga == SortSelect \/ SortCrowd

SpecNsga == InitNsga /\ [][NextNsga]_vars

(***************************************************************************)
(* Claims on the sorting helpers                                           *)
(***************************************************************************)

\* a is at least b in every objective and more in at least one
ParetoDominates(a, b) ==
    /\ \A k \in DOMAIN a : a[k] >= b[k]
    /\ \E k \in DOMAIN a : a[k] > b[k]

\* C21: the dominance test of the non-dominated sorting is Pareto dominance:
\* individual i is recorded as dominating j exactly when its vector is at
\* least j's in every objective and more in at least one; so no individual
\* dominates itself, no two dominate each other (equal vectors included),
\* and each domination count is the number of individuals that dominate it.
C21_ParetoDominance ==
    nsga.pc = "selected" =>
        \A i \in DOMAIN sortInput :
            /\ i \notin nsga.dominated[i]
            /\ nsga.count[i] = Cardinality({j \in DOMAIN sortInput :
                                   ParetoDominates(sortInput[j], sortInput[i])})
            /\ \A j \in DOMAIN sortInput :
                  /\ j \in nsga.dominated[i]
                        <=> ParetoDominates(sortInput[i], sortInput[j])
                  /\ ~(j \in nsga.dominated[i] /\ i \in nsga.dominated[j])

\* [1,1,1,1,1] twice around [0,0,0,0,0]: both dominate it, neither the other
C21_Witness ==
    /\ nsga.pc = "selected"
    /\ nsga.exc = ""
    /\ sortInput = <<<<1, 1, 1, 1, 1>>, <<0, 0, 0, 0, 0>>, <<1, 1, 1, 1, 1>>>>
    /\ nsga.dominated = <<{2}, {}, {2}>>
    /\ nsga.fronts[1] = <<1, 3>>

\* individual k attains the least or the greatest value of some objective
AtBoundary(front_fitness, k) ==
    \E obj \in DOMAIN front_fitness[k] :
        \/ \A q \in DOMAIN front_fitness : front_fitness[q][obj] >= front_fitness[k][obj]
        \/ \A q \in DOMAIN front_fitness : front_fitness[q][obj] <= front_fitness[k][obj]

\* C22: _crowding_distance gives infinite distance to every individual that
\* attains the minimum or the maximum of some objective within the front,
\* ties included, and to every individual of a front of at most two.
C22_BoundaryInfinite ==
    nsga.pc = "crowded" =>
        \A k \in DOMAIN sortInput :
            (Len(sortInput) <= 2 \/ AtBoundary(sortInput, k)) => nsga.distance[k].inf

(***************************************************************************)
(* Part VIII: compute/bayesian_model.py, the red posterior                 *)
(***************************************************************************)

MaxBayesDraws == 3     \* longest history handed to the constructor

\* counts[r-1] over the draws of `recent`
RECURSIVE CountsFrom(_, _, _)
CountsFrom(recent, k, r) ==
    IF k > Len(recent) THEN 0
    ELSE (IF 1 <= r /\ r <= MaxRed
          THEN Cardinality({q \in DOMAIN recent[k].reds : recent[k].reds[q] = r}) ELSE 0)
         + CountsFrom(recent, k + 1, r)

\* _build_red_posterior in hundredths: alpha + counts * likelihood_weight
_build_red_posterior(h, p) ==
    LET recent == IF h = <<>> THEN <<>> ELSE LastN(h, p.history_window)
    IN  [r \in 1..MaxRed |->
            p.prior_alpha + (CountsFrom(recent, 1, r) * p.likelihood_weight) \div 100]

BayesDraws == {[reds |-> ComboA, blue |-> 9], [reds |-> ComboC, blue |-> 4],
               [reds |-> ComboLow, blue |-> 1]}

BayesHistories == UNION {[1..n -> BayesDraws] : n \in 0..MaxBayesDraws}

\* prior_alpha and likelihood_weight in hundredths
BayesParams ==
    [prior_alpha : {50, 100}, likelihood_weight : {100, 200}, history_window : {0, 1, 2, 100}]

InitBayes ==
    /\ IdleBt
    /\ IdleMgr
    /\ IdleNsga
    /\ strat = ""
    /\ gpc = "idle"
    /\ gparams \in BayesParams
    /\ ghistory \in BayesHistories
    /\ population = <<>>
    /\ best = NoBest(0, FALSE)
    /\ gen = 0
    /\ selected = <<>>
    /\ candidate = NoCandidate
    /\ red_posterior = <<>>

\* BayesianModel(history=history, params=params)
BayesInit ==
    /\ gpc = "idle"
    /\ strat' = "bayesian_model"
    /\ gpc' = "built"
    /\ red_posterior' = _build_red_posterior(ghistory, gparams)
    /\ UNCHANGED <<gparams, ghistory, population, best, gen, selected, candidate,
                   btVars, mgrVars, nsgaVars>>

NextBayes == BayesInit

SpecBayes == InitBayes /\ [][NextBayes]_vars

(***************************************************************************)
(* Claims on the posterior                                                 *)
(***************************************************************************)

\* the draws among the last `window` of h (none for a window of 0)
LastDraws(h, window) == {k \in DOMAIN h : k > Len(h) - window}

\* occurrences of r in those draws
Occurrences(h, window, r) ==
    Cardinality({pair \in LastDraws(h, window) \X (1..RedCount) : h[pair[1]].reds[pair[2]] = r})

\* C23: with no occurrence counted every component of the red posterior is
\* prior_alpha exactly; with a positive likelihood_weight the component of a
\* number is prior_alpha + weight x (its occurrences within the last
\* history_window draws), so a number with more occurrences has a strictly
\* larger component.
C23_PosteriorIsPriorPlusCounts ==
    gpc = "built" =>
        \A r \in 1..MaxRed :
            /\ red_posterior[r] = gparams.prior_alpha
                   + (gparams.likelihood_weight
                      * Occurrences(ghistory, gparams.history_window, r)) \div 100
            /\ Occurrences(ghistory, gparams.history_window, r) = 0
                   => red_posterior[r] = gparams.prior_alpha
            /\ \A q \in 1..MaxRed :
                  Occurrences(ghistory, gparams.history_window, q)
                      < Occurrences(ghistory, gparams.history_window, r)
                  => red_posterior[q] < red_posterior[r]

(***************************************************************************)
(* Claims on the hot numbers                                               *)
(***************************************************************************)

\* the numbers generate() finds hot
HotPool(h, p) == {r \in 1..MaxRed : red_freq(h, p, r) >= p.hot_threshold}

SevenInEveryDraw(h) == h # <<>> /\ \A k \in DOMAIN h : 7 \in Range(h[k].reds)

\* C24: for a history with 7 in every draw and hot_threshold = 4, 7 is in
\* the hot-number pool of the Hot/Cold strategy and is among the six numbers
\* selected before the replacement loop starts, whatever else is hot.
C24_SevenSelected ==
    (strat = "hot_cold" /\ gpc = "retry" /\ gen = 0
        /\ SevenInEveryDraw(ghistory) /\ gparams.hot_threshold = 4) =>
        /\ 7 \in HotPool(ghistory, gparams)
        /\ 7 \in Range(selected)

(***************************************************************************)
(* Claims on the genetic operators                                         *)
(***************************************************************************)

\* exactly 6 distinct values of 1..33 in ascending order
ValidIndividual(ind) ==
    /\ Len(ind) = RedCount
    /\ \A k \in DOMAIN ind : ind[k] \in 1..MaxRed
    /\ \A k \in 2..Len(ind) : ind[k - 1] < ind[k]

\* C25: every child of the single-point crossover, in the single-objective
\* GA and in NSGA-II, has exactly 6 distinct values of 1..33 in ascending
\* order, so every individual of every generation keeps length 6 and the
\* swap mutation never indexes outside an individual.
C25_ChildrenValid ==
    strat \in {"genetic_model.single", "genetic_model.nsga2"} =>
        /\ \A i \in DOMAIN population : ValidIndividual(population[i])
        /\ strat = "genetic_model.single" => candidate.exc # "IndexError"

\* the position of individual i in the returned list (0: not returned)
PositionOf(i) ==
    IF \E q \in DOMAIN nsga.selected : nsga.selected[q] = i
    THEN CHOOSE q \in DOMAIN nsga.selected : nsga.selected[q] = i
    ELSE 0

\* C26: _nsga2_select completes without error for every population of
\* n >= 1 individuals and every assignment of fitness vectors, a total
\* dominance chain included; every individual is in exactly one front, and
\* no returned individual precedes one that dominates it.
C26_SelectCompletes ==
    nsga.pc = "selected" =>
        /\ nsga.exc = ""
        /\ \A i \in DOMAIN sortInput :
              Cardinality({pair \in {u \in (DOMAIN nsga.fronts) \X (1..Len(sortInput)) :
                                        u[2] \in DOMAIN nsga.fronts[u[1]]} :
                              nsga.fronts[pair[1]][pair[2]] = i}) = 1
        /\ \A i, j \in DOMAIN sortInput :
              (PositionOf(i) > 0 /\ PositionOf(j) > 0
                  /\ ParetoDominates(sortInput[j], sortInput[i]))
              => PositionOf(j) < PositionOf(i)

\* C27: the reds the NSGA-II strategy returns are an individual whose summed
\* fitness vector equals the reported fitness_score: the best summed fitness
\* seen over the evaluated generations belongs to the returned individual.
C27_ScoreOfReturned ==
    (strat = "genetic_model.nsga2" /\ gpc = "done" /\ candidate.status = "returned"
        /\ Len(ghistory) >= MinGaHistory) =>
        /\ ~candidate.extra_info.fitness_score.inf
        /\ candidate.extra_info.fitness_score.v
              = SumSeq(_fitness_vector(candidate.reds, ghistory, gparams))

(***************************************************************************)
(* Claims on the order of commit and execution                             *)
(***************************************************************************)

\* the records start_backtest created for task t
RecordsOf(t) == {r \in DOMAIN records : records[r].task_id = t}

\* C28: the record of a backtest is created and committed before its task
\* can run: in every interleaving of start_backtest with the worker, a task
\* the worker has started has its record, and the finalize step of the task
\* finds that record and completes it.
C28_RecordBeforeTask ==
    \A t \in DOMAIN tasks :
        /\ tasks[t].executions > 0 => RecordsOf(t) # {}
        /\ tasks[t].state = "success" =>
              \E r \in RecordsOf(t) : records[r].status = "completed"

(***************************************************************************)
(* Claims on the history handed to a strategy                              *)
(***************************************************************************)

\* history[-1]: the draw a strategy reads as the most recent one
MostRecentOf(history) == history[Len(history)]

\* the chronologically latest draw of a window (rows are numbered in the
\* order of their qi_shu)
LatestOf(history) == CHOOSE d \in Range(history) : \A e \in Range(history) : e <= d

\* C29: when ModelManager.execute hands the window of the history feed to a
\* strategy, the element the strategy reads as the most recent draw,
\* history[-1], is the chronologically latest draw of that window.
C29_LastIsLatest ==
    (Called /\ call.loaded # <<>>) =>
        MostRecentOf(call.handed) = LatestOf(call.handed)

(***************************************************************************)
(* Claims on the order of registration                                     *)
(***************************************************************************)

\* every order in which the classes of S can be registered
Orders(S) ==
    {o \in [1..Cardinality(S) -> S] : \A cls \in S : \E k \in DOMAIN o : o[k] = cls}

====
